---- MODULE Spec2Model ----
(***************************************************************************)
(* A model of the Qubes OS notification proxy: the host ID mapping         *)
(* (src/src/maps.rs), the host emitter (src/src/lib.rs and                 *)
(* src/src/bin/notification-proxy-server.rs) and the guest agent           *)
(* (src/src/bin/notification-proxy-client.rs).                             *)
(*                                                                         *)
(* Conventions.  Option<NonZeroU32> is a number, 0 standing for None.      *)
(* A panic (panic!, assert!, expect, todo!) ends the panicking process:    *)
(* its state becomes "aborted" and it takes no further step.               *)
(***************************************************************************)
EXTENDS Integers, Sequences, FiniteSets, Bags, TLC

(***************************************************************************)
(* Bounds of the model.                                                    *)
(***************************************************************************)
\* Stand-in for u32::MAX: IDs live in 1..MaxU32 and `next` wraps MaxU32 to 1.
MaxU32 == 3
\* The real service hands out host IDs 1..MaxHostId (and 0, a violation).
MaxHostId == 2
\* Number of Notify calls local applications make on the guest agent.
MaxCalls == 2
\* Number of signals (NotificationClosed, ActionInvoked, NameOwnerChanged)
\* the host's event tasks get to handle.
MaxSignals == 1

Ids == 1..MaxU32
HostIds == 1..MaxHostId

(***************************************************************************)
(* Finite maps (BTreeMap) as functions.                                    *)
(***************************************************************************)
EmptyMap == [k \in {} |-> 0]

\* BTreeMap::insert: binds k to v, replacing a previous binding.
Insert(m, k, v) == [x \in DOMAIN m \cup {k} |-> IF x = k THEN v ELSE m[x]]

\* BTreeMap::remove
Remove(m, k) == [x \in DOMAIN m \ {k} |-> m[x]]

\* BTreeMap::get, None = 0
Get(m, k) == IF k \in DOMAIN m THEN m[k] ELSE 0

(***************************************************************************)
(* src/src/maps.rs                                                         *)
(***************************************************************************)
VARIABLES guest_to_host_map, host_to_guest_map, last_id

\* The Maps value held by the emitter.
Maps == [g2h |-> guest_to_host_map, h2g |-> host_to_guest_map, last |-> last_id]

\* Maps::default
MapsDefault == [g2h |-> EmptyMap, h2g |-> EmptyMap, last |-> 1]

\* A mutant of next: the addition wraps as that of a u32 does.
next_wrapping(t) == (t + 1) % (MaxU32 + 1)

\* fn next
next(t) == IF t = MaxU32 THEN 1 ELSE t + 1

\* The while loop of next_id: advance past every live guest ID.  Called only
\* when some ID is free (otherwise the loop does not terminate).
RECURSIVE SkipLive(_, _)
SkipLive(l, g2h) == IF l \in DOMAIN g2h THEN SkipLive(next(l), g2h) ELSE l

\* A mutant of next_id: the loop that skips live guest IDs is left out, and
\* with it the assert! on the guest_to_host insert.
next_id_noskip(m, id, guest_id) ==
    IF guest_id # 0
    THEN [maps |-> [g2h |-> Insert(m.g2h, guest_id, id),
                    h2g |-> Insert(m.h2g, id, guest_id),
                    last |-> m.last],
          ret |-> guest_id, outcome |-> "ok"]
    ELSE LET l == next(m.last)
         IN [maps |-> [g2h |-> Insert(m.g2h, l, id),
                       h2g |-> Insert(m.h2g, id, l),
                       last |-> l],
             ret |-> l,
             outcome |-> IF id \in DOMAIN m.h2g THEN "panic" ELSE "ok"]

\* Maps::next_id(id, guest_id).  The result carries the maps after the call,
\* the returned guest ID and the outcome: "ok", "panic" (an assert! failed;
\* the maps are as the inserts left them) or "spin" (every guest ID is live
\* and the while loop never ends).
next_id(m, id, guest_id) ==
    IF guest_id # 0
    THEN [maps |-> [g2h |-> Insert(m.g2h, guest_id, id),
                    h2g |-> Insert(m.h2g, id, guest_id),
                    last |-> m.last],
          ret |-> guest_id, outcome |-> "ok"]
    ELSE IF DOMAIN m.g2h = Ids
    THEN [maps |-> m, ret |-> 0, outcome |-> "spin"]
    ELSE LET l == SkipLive(next(m.last), m.g2h)
         IN [maps |-> [g2h |-> Insert(m.g2h, l, id),
                       h2g |-> Insert(m.h2g, id, l),
                       last |-> l],
             ret |-> l,
             outcome |-> IF l \in DOMAIN m.g2h \/ id \in DOMAIN m.h2g
                         THEN "panic" ELSE "ok"]

\* A mutant of lookup_guest_id: a guest ID the map does not hold is passed
\* on as it is.
lookup_guest_id_unchecked(m, id) ==
    IF id \in DOMAIN m.g2h THEN m.g2h[id] ELSE id

\* Maps::lookup_guest_id
lookup_guest_id(m, id) == Get(m.g2h, id)

\* Maps::lookup_host_id
lookup_host_id(m, id) == Get(m.h2g, id)

\* Maps::remove_host_id: removes host_to_guest[id] and, through the guest ID
\* found there, the guest_to_host entry, which assert_eq! requires to be id.
remove_host_id(m, id) ==
    IF id \notin DOMAIN m.h2g
    THEN [maps |-> m, ret |-> 0, outcome |-> "ok"]
    ELSE LET g == m.h2g[id]
         IN [maps |-> [g2h |-> Remove(m.g2h, g),
                       h2g |-> Remove(m.h2g, id),
                       last |-> m.last],
             ret |-> g,
             outcome |-> IF Get(m.g2h, g) = id THEN "ok" ELSE "panic"]

\* Maps::clear
clear(m) == [g2h |-> EmptyMap, h2g |-> EmptyMap, last |-> m.last]

(***************************************************************************)
(* Strings are sequences of characters.  The byte ranges the validators    *)
(* test are represented by the characters of the model's alphabet.         *)
(***************************************************************************)
LowerCase == {"a", "k", "z"}
UpperCase == {"A", "Z"}
Digits == {"0", "9"}

\* Option<T>: None, or Some(v).
None == [some |-> FALSE, v |-> <<>>]
Some(x) == [some |-> TRUE, v |-> x]

(***************************************************************************)
(* src/src/lib.rs: validators                                              *)
(***************************************************************************)
\* fn is_valid_action_name (lib.rs and, with the same tests, the guest's
\* copy in notification-proxy-client.rs).
is_valid_action_name(action) ==
    /\ Len(action) # 0
    /\ Len(action) <= 255
    /\ action[1] \in LowerCase \cup UpperCase
    /\ \A i \in 2..Len(action) :
          action[i] \in LowerCase \cup UpperCase \cup Digits \cup {"-", ".", "_"}

\* A mutant of is_valid_category: the last byte is not looked at again.
is_valid_category_any_end(category) ==
    /\ Len(category) <= 64
    /\ Len(category) # 0
    /\ category[1] \in LowerCase
    /\ \A i \in 2..Len(category) : category[i] \in LowerCase \cup {"."}

\* The category test of send_notification.
is_valid_category(category) ==
    /\ Len(category) <= 64
    /\ Len(category) # 0
    /\ category[1] \in LowerCase
    /\ \A i \in 2..Len(category) : category[i] \in LowerCase \cup {"."}
    /\ category[Len(category)] # "."

(***************************************************************************)
(* Wire messages (lib.rs: Message, Notification::V1, ReplyMessage).        *)
(* Every ReplyMessage is a record of the same shape; the fields a variant  *)
(* does not have are 0 or empty.                                           *)
(***************************************************************************)
Reply(type, id, sequence, name, message, reason, action) ==
    [type |-> type, id |-> id, sequence |-> sequence, name |-> name,
     message |-> message, reason |-> reason, action |-> action]

ReplyId(id, sequence) == Reply("Id", id, sequence, "", None, 0, <<>>)
ReplyDBusError(name, message, sequence) ==
    Reply("DBusError", 0, sequence, name, message, 0, <<>>)
ReplyUnknownError(sequence) == Reply("UnknownError", 0, sequence, "", None, 0, <<>>)
ReplyDismissed(id, reason) == Reply("Dismissed", id, 0, "", None, reason, <<>>)
ReplyActionInvoked(id, action) == Reply("ActionInvoked", id, 0, "", None, 0, action)
ReplyServerRestart == Reply("ServerRestart", 0, 0, "", None, 0, <<>>)

\* zbus::Result<T>
Ok(v) == [ok |-> TRUE, v |-> v, kind |-> "", name |-> "", message |-> None]
Err(kind, name, message) ==
    [ok |-> FALSE, v |-> 0, kind |-> kind, name |-> name, message |-> message]

(***************************************************************************)
(* src/src/lib.rs: NotificationEmitter::send_notification                  *)
(***************************************************************************)
\* Lines 491-635: everything up to the await of the real service's Notify.
\* No suspension point lies in between.  The result is either the call made
\* (call = TRUE, with the replaces_id and actions passed) or the error the
\* function returns at once.
send_notification_start(m, caps, n) ==
    LET guest_id == n.replaces_id
        host_id == IF guest_id = 0 THEN 0 ELSE lookup_guest_id(m, guest_id)
        NoCallErr(e) == [call |-> FALSE, host_id_num |-> 0, err |-> e]
    IN  IF guest_id # 0 /\ host_id = 0
        THEN NoCallErr(Err("Failure", "", Some("ID not found in guest-to-host lookup map")))
        ELSE IF n.expire_timeout < -1
        THEN NoCallErr(Err("Unsupported", "", None))
        ELSE IF Len(n.actions) % 2 # 0
        THEN NoCallErr(Err("Failure", "", Some("Actions must have an even length")))
        ELSE IF /\ "actions" \in caps
                /\ \E i \in 1..Len(n.actions) :
                      i % 2 = 1 /\ ~is_valid_action_name(n.actions[i])
        THEN NoCallErr(Err("Failure", "", Some("Invalid action name")))
        ELSE IF n.category.some /\ ~is_valid_category(n.category.v)
        THEN NoCallErr(Err("MissingParameter", "", Some("Invalid category")))
        \* The image is not looked at: its validation sits under `if false`.
        ELSE [call |-> TRUE, host_id_num |-> host_id, err |-> Ok(0)]

\* Lines 623-639: what the function returns once the real service answered
\* with `answer`.  next_id is called with the host ID alone: the guest ID of
\* line 491 is not handed over, so no guest hint reaches the mapping.
send_notification_finish(m, answer) ==
    IF ~answer.ok
    THEN [maps |-> m, out |-> answer, outcome |-> "ok"]
    ELSE IF answer.v = 0
    THEN [maps |-> m, out |-> answer, outcome |-> "panic"]
    ELSE LET r == next_id(m, answer.v, 0)
         IN [maps |-> r.maps, out |-> Ok(r.ret), outcome |-> r.outcome]

(***************************************************************************)
(* src/src/bin/notification-proxy-server.rs: reply assembly                *)
(***************************************************************************)
\* Lines 145-159: the frame written for a request's outcome.
ReplyOf(out, sequence) ==
    IF out.ok THEN ReplyId(out.v, sequence)
    ELSE IF out.kind = "MethodError"
    THEN ReplyDBusError(out.name, out.message, sequence)
    ELSE ReplyUnknownError(sequence)

(***************************************************************************)
(* State.                                                                  *)
(*  host_state     "running", "aborted" (a panic), "hung" (next_id spins), *)
(*                 "draining" (end of input seen) or "exited" (code 0)     *)
(*  capabilities   what the real service advertised to the emitter         *)
(*  tasks          the host's per-request tasks (spawn_local), a bag       *)
(*  pipe_g2h, pipe_h2g  frames written and not yet read, per direction;     *)
(*                 a frame is written to the host-to-guest pipe once the   *)
(*                 reader has taken the one before it                      *)
(*  replied        sequences for which the host wrote a reply              *)
(*  spawned        number of request frames the host has read              *)
(*  signals        number of signals the event tasks have handled          *)
(*  guest_state    "running" or "aborted"                                  *)
(*  next_seq       the guest's sequence counter (Server.1)                 *)
(*  calls          the guest's Notify calls, by sequence                   *)
(*  guest_lock     holder of the guest's Mutex<ServerInner>, -1 when free  *)
(*  map            keys of ServerInner.map, the parked waiters             *)
(*  api, issued    used when the mapping is exercised on its own           *)
(***************************************************************************)
VARIABLES host_state, capabilities, tasks, pipe_g2h, pipe_h2g, replied,
          spawned, signals,
          guest_state, next_seq, calls, guest_lock, map,
          api, issued

mapsVars == <<guest_to_host_map, host_to_guest_map, last_id>>
hostVars == <<host_state, capabilities, tasks, replied, spawned, signals>>
guestVars == <<guest_state, next_seq, calls, guest_lock, map>>
apiVars == <<api, issued>>

(***************************************************************************)
(* State of the wire: the two processes from their start, with the pipe    *)
(* as the stream of what was written to it.  A payload is opaque here.     *)
(*  versions       the (major, minor) each side was built with             *)
(*  host_main, guest_main  where client_server of each side stands         *)
(*  sent_g2h, sent_h2g  what was written to each direction and is not yet  *)
(*                 read, in order                                          *)
(*  read_g2h, read_h2g  the version word the reader got, -1 before         *)
(*  host_need, guest_need  the size the reader read and whose payload it   *)
(*                 awaits, -1 when it awaits a size                        *)
(*  host_writers, guest_writers  the producers in transmit / in the write  *)
(*                 of Server::notify, by producer                          *)
(*  host_out, guest_out  holder of the writer mutex of each side           *)
(***************************************************************************)
VARIABLES versions, host_main, guest_main, sent_g2h, sent_h2g, read_g2h,
          read_h2g, host_need, guest_need, host_writers, guest_writers,
          host_out, guest_out

wireVars == <<versions, host_main, guest_main, sent_g2h, sent_h2g, read_g2h,
              read_h2g, host_need, guest_need, host_writers, guest_writers,
              host_out, guest_out>>

(***************************************************************************)
(* A function looked at on its own: the argument it is applied to, and its *)
(* result once it has been applied.  Where two hosts run side by side,     *)
(* `input` is what tells the second from the first and `output` is the     *)
(* second host.                                                            *)
(***************************************************************************)
VARIABLES input, output

fnVars == <<input, output>>

(***************************************************************************)
(* The real service and the host's event tasks, where the order of what    *)
(* the service does and what the host's tasks do is looked at.             *)
(*  service   the real service: the host IDs of the notifications open at  *)
(*            it, the number of signals it has emitted, and whether it has *)
(*            ever answered Notify with an ID that was open at that moment *)
(*  events    the host's side of the signals: per stream the signals       *)
(*            emitted and not yet taken by its task (each with its number  *)
(*            in the order of emission), the frame a task is about to      *)
(*            transmit, and the number of the signal last written          *)
(***************************************************************************)
VARIABLES service, events

serviceVars == <<service, events>>
vars == <<mapsVars, hostVars, guestVars, pipe_g2h, pipe_h2g, apiVars, wireVars,
          fnVars, serviceVars>>


NoFrame == Reply("none", 0, 0, "", None, 0, <<>>)
NoAnswer == Err("pending", "", None)

\* A host task: its request's sequence, where it stands, the request (until
\* send_notification has consumed it), the request's replaces_id (guest_id,
\* line 491), the replaces_id passed to the real service, the reply about
\* to be written.
Task(sequence, stage, n, guest_id, host_id_num, reply) ==
    [sequence |-> sequence, stage |-> stage, n |-> n, guest_id |-> guest_id,
     host_id_num |-> host_id_num, reply |-> reply]

\* A Notify call on the guest: where it stands, its request, its result.
Call(stage, n, result) == [stage |-> stage, n |-> n, result |-> result]

ApiCall(op, ret, outcome, skipped) ==
    [op |-> op, ret |-> ret, outcome |-> outcome, skipped |-> skipped]

NoCall == ApiCall("none", 0, "ok", FALSE)

\* What a call's outcome does to the host process.
AfterOutcome(outcome) ==
    CASE outcome = "ok" -> "running"
      [] outcome = "panic" -> "aborted"
      [] outcome = "spin" -> "hung"

SetMaps(m) ==
    /\ guest_to_host_map' = m.g2h
    /\ host_to_guest_map' = m.h2g
    /\ last_id' = m.last

(***************************************************************************)
(* What local applications ask of the guest agent.                         *)
(***************************************************************************)
Notification(replaces_id, expire_timeout, actions, category, image) ==
    [replaces_id |-> replaces_id, expire_timeout |-> expire_timeout,
     actions |-> actions, category |-> category, image |-> image]

\* The place of a request that has been moved out (serialized, or consumed
\* by send_notification).
Moved == Notification(0, 0, <<>>, None, None)

\* An image with 16 bits per sample:
\* <<width, height, rowstride, has_alpha, bits_per_sample, channels, len>>
BadImage == <<1, 1, 4, 1, 16, 4, 4>>

NotifyInputs ==
    {Notification(r, -1, <<>>, None, None) : r \in 0..MaxU32}
    \cup {Notification(0, -2, <<>>, None, None),
          Notification(0, 0, <<>>, Some(<<"A">>), None),
          Notification(0, -1, << <<"k">> >>, None, None),
          Notification(0, -1, << <<"0">>, <<"a">> >>, None, None),
          Notification(0, -1, << <<"k">>, <<"a">> >>, Some(<<"a", ".", "z">>), None),
          Notification(0, -1, <<>>, None, Some(BadImage))}

\* What the real service may answer to Notify.
ServiceAnswers ==
    {Ok(h) : h \in 0..MaxHostId}
    \cup {Err("MethodError", "org.freedesktop.DBus.Error.Failed", Some("refused")),
          Err("InputOutput", "", None)}

Reasons == {3}
ActionKeys == {<<"k">>}

(***************************************************************************)
(* The guest agent: src/src/bin/notification-proxy-client.rs               *)
(***************************************************************************)
\* A mutant of fetch_add: the counter is read and left as it is.
fetch_add_load(counter) == [id |-> counter, counter |-> counter]

\* AtomicU64::fetch_add(1, SeqCst), line 184: the value before, and the
\* counter after.  The counter has 64 bits and does not come near its end.
fetch_add(counter) == [id |-> counter, counter |-> counter + 1]

\* A mutant of Mutex_lock: the lock is handed out whoever holds it.
Mutex_lock_always(holder) == TRUE

\* Mutex::lock().await on the Arc<Mutex<ServerInner>> of lines 12-17 (lines
\* 214, 312, 333): it returns when no one holds the guard.
Mutex_lock(holder) == holder = -1

\* Server::notify, lines 184-207: take a sequence, then validate the actions.
\* A refused call has consumed its sequence and writes nothing.
GuestNotify(n) ==
    /\ guest_state = "running"
    /\ next_seq < MaxCalls
    /\ next_seq' = fetch_add(next_seq).counter
    /\ calls' = Insert(calls, fetch_add(next_seq).id,
          IF Len(n.actions) % 2 # 0
          THEN Call("done", Moved, Err("InvalidArgs", "", Some("Actions array has odd length")))
          ELSE IF \E i \in 1..(Len(n.actions) \div 2) :
                     ~is_valid_action_name(n.actions[2 * i - 1])
          THEN Call("done", Moved, Err("InvalidArgs", "", Some("invalid action name")))
          ELSE Call("locking", n, NoAnswer))
    /\ UNCHANGED <<guest_state, guest_lock, map, pipe_g2h, pipe_h2g>>
    /\ UNCHANGED <<mapsVars, hostVars, apiVars>>
    /\ UNCHANGED <<wireVars, fnVars, serviceVars>>

\* Server::notify, lines 209-225: take the lock, write the frame and flush.
GuestNotifyWrite(s) ==
    /\ guest_state = "running"
    /\ s \in DOMAIN calls
    /\ calls[s].stage = "locking"
    /\ Mutex_lock(guest_lock)
    /\ guest_lock' = s
    /\ pipe_g2h' = Append(pipe_g2h, [id |-> s, notification |-> calls[s].n])
    /\ calls' = [calls EXCEPT ![s] = Call("written", Moved, NoAnswer)]
    /\ UNCHANGED <<guest_state, next_seq, map, pipe_h2g>>
    /\ UNCHANGED <<mapsVars, hostVars, apiVars>>
    /\ UNCHANGED <<wireVars, fnVars, serviceVars>>

\* Server::notify, lines 226-232: park the waiter, release the lock, await.
GuestNotifyPark(s) ==
    /\ guest_state = "running"
    /\ s \in DOMAIN calls
    /\ calls[s].stage = "written"
    /\ guest_lock = s
    /\ map' = map \cup {s}
    /\ guest_lock' = -1
    /\ calls' = [calls EXCEPT ![s].stage = "parked"]
    /\ UNCHANGED <<guest_state, next_seq, pipe_g2h, pipe_h2g>>
    /\ UNCHANGED <<mapsVars, hostVars, apiVars>>
    /\ UNCHANGED <<wireVars, fnVars, serviceVars>>

\* What the caller of Notify gets for a completed waiter (lines 231-234).
NotifyResult(sent) ==
    IF sent.ok THEN sent
    ELSE Err("Failed", "",
             IF sent.message.some THEN sent.message ELSE Some("failed"))

\* client_server, lines 311-339: an Id or DBusError frame.  The slot is taken
\* out under the lock; a missing slot is "server violated the protocol".
GuestReplyWaiter ==
    /\ guest_state = "running"
    /\ pipe_h2g # <<>>
    /\ Head(pipe_h2g).type \in {"Id", "DBusError"}
    /\ Mutex_lock(guest_lock)
    /\ LET f == Head(pipe_h2g)
           sent == IF f.type = "Id" THEN Ok(f.id)
                   ELSE Err("DBusError", f.name, f.message)
       IN  IF f.sequence \in map
           THEN /\ map' = map \ {f.sequence}
                /\ calls' = [calls EXCEPT ![f.sequence] =
                                Call("done", @.n, NotifyResult(sent))]
                /\ UNCHANGED guest_state
           ELSE /\ guest_state' = "aborted"
                /\ UNCHANGED <<map, calls>>
    /\ pipe_h2g' = Tail(pipe_h2g)
    /\ UNCHANGED <<next_seq, guest_lock, pipe_g2h>>
    /\ UNCHANGED <<mapsVars, hostVars, apiVars>>
    /\ UNCHANGED <<wireVars, fnVars, serviceVars>>

\* client_server, lines 340-351: Dismissed and ActionInvoked become local
\* signals; nothing of the agent's state changes.
GuestReplySignal ==
    /\ guest_state = "running"
    /\ pipe_h2g # <<>>
    /\ Head(pipe_h2g).type \in {"Dismissed", "ActionInvoked"}
    /\ pipe_h2g' = Tail(pipe_h2g)
    /\ UNCHANGED <<guestVars, pipe_g2h>>
    /\ UNCHANGED <<mapsVars, hostVars, apiVars>>
    /\ UNCHANGED <<wireVars, fnVars, serviceVars>>

\* client_server, line 352: UnknownError is todo!().
GuestReplyUnknownError ==
    /\ guest_state = "running"
    /\ pipe_h2g # <<>>
    /\ Head(pipe_h2g).type = "UnknownError"
    /\ pipe_h2g' = Tail(pipe_h2g)
    /\ guest_state' = "aborted"
    /\ UNCHANGED <<next_seq, calls, guest_lock, map, pipe_g2h>>
    /\ UNCHANGED <<mapsVars, hostVars, apiVars>>
    /\ UNCHANGED <<wireVars, fnVars, serviceVars>>

\* client_server, lines 307-353: the match has no arm for ServerRestart.
\* Nothing in the loop fails the parked waiters or resets the server object;
\* the frame is either passed over or ends the agent.
GuestReplyServerRestart ==
    /\ guest_state = "running"
    /\ pipe_h2g # <<>>
    /\ Head(pipe_h2g).type = "ServerRestart"
    /\ pipe_h2g' = Tail(pipe_h2g)
    /\ \/ guest_state' = "running"
       \/ guest_state' = "aborted"
    /\ UNCHANGED <<next_seq, calls, guest_lock, map, pipe_g2h>>
    /\ UNCHANGED <<mapsVars, hostVars, apiVars>>
    /\ UNCHANGED <<wireVars, fnVars, serviceVars>>

GuestNext ==
    \/ \E n \in NotifyInputs : GuestNotify(n)
    \/ \E s \in DOMAIN calls : GuestNotifyWrite(s)
    \/ \E s \in DOMAIN calls : GuestNotifyPark(s)
    \/ GuestReplyWaiter
    \/ GuestReplySignal
    \/ GuestReplyUnknownError

(***************************************************************************)
(* The host: src/src/bin/notification-proxy-server.rs                      *)
(***************************************************************************)
\* A task is spawned; a task t moves on to be u; a task ends.
Spawn(t) == tasks (+) SetToBag({t})
Become(t, u) == (tasks (-) SetToBag({t})) (+) SetToBag({u})
End(t) == tasks (-) SetToBag({t})
Tasks == BagToSet(tasks)

\* The states of the host in which the LocalSet of main (server lines
\* 170-177) polls the tasks of the requests: while client_server reads, and
\* after it has returned.
Polled == {"running", "draining"}

\* client_server, lines 117-142: read one frame and spawn its task.
HostRead ==
    /\ host_state = "running"
    /\ pipe_g2h # <<>>
    /\ LET message == Head(pipe_g2h)
       IN tasks' = Spawn(Task(message.id, "spawned", message.notification,
                              0, 0, NoFrame))
    /\ spawned' = spawned + 1
    /\ pipe_g2h' = Tail(pipe_g2h)
    /\ UNCHANGED <<host_state, capabilities, replied, signals, pipe_h2g>>
    /\ UNCHANGED <<mapsVars, guestVars, apiVars>>
    /\ UNCHANGED <<wireVars, fnVars, serviceVars>>

\* What a task is after its first poll: send_notification up to the call of
\* the real service (line 143 with lib.rs 491-635).  An early error goes
\* straight to the reply assembly of lines 144-160.
Started(t, m, caps) ==
    LET r == send_notification_start(m, caps, t.n)
    IN  IF r.call
        THEN Task(t.sequence, "calling", Moved, t.n.replaces_id,
                  r.host_id_num, NoFrame)
        ELSE Task(t.sequence, "replying", Moved, 0, 0, ReplyOf(r.err, t.sequence))

HostSendStart(t) ==
    /\ host_state \in Polled
    /\ t \in Tasks
    /\ t.stage = "spawned"
    /\ tasks' = Become(t, Started(t, Maps, capabilities))
    /\ UNCHANGED <<host_state, capabilities, replied, spawned, signals, pipe_g2h, pipe_h2g>>
    /\ UNCHANGED <<mapsVars, guestVars, apiVars>>
    /\ UNCHANGED <<wireVars, fnVars, serviceVars>>

\* The real service answers and the task resumes: lib.rs 623-639, then the
\* reply assembly.  A panic leaves the task where it was.
HostSendFinish(t, answer) ==
    /\ host_state = "running"
    /\ t \in Tasks
    /\ t.stage = "calling"
    /\ LET f == send_notification_finish(Maps, answer)
       IN /\ SetMaps(f.maps)
          /\ host_state' = AfterOutcome(f.outcome)
          /\ tasks' = IF f.outcome = "ok"
                      THEN Become(t, Task(t.sequence, "replying", Moved, 0, 0,
                                          ReplyOf(f.out, t.sequence)))
                      ELSE tasks
    /\ UNCHANGED <<capabilities, replied,
                   spawned, signals, pipe_g2h, pipe_h2g>>
    /\ UNCHANGED <<guestVars, apiVars>>
    /\ UNCHANGED <<wireVars, fnVars, serviceVars>>

\* MessageWriter::transmit (lib.rs 372-384) for a request's reply, line 161.
HostTransmit(t) ==
    /\ host_state \in Polled
    /\ t \in Tasks
    /\ t.stage = "replying"
    /\ pipe_h2g = <<>>
    /\ pipe_h2g' = Append(pipe_h2g, t.reply)
    /\ tasks' = End(t)
    /\ replied' = replied \cup {t.sequence}
    /\ UNCHANGED <<host_state, capabilities, spawned, signals, pipe_g2h>>
    /\ UNCHANGED <<mapsVars, guestVars, apiVars>>
    /\ UNCHANGED <<wireVars, fnVars, serviceVars>>

\* NotificationEmitter::remove_host_id (lib.rs 463-474): Some(0) for id 0.
emitter_remove_host_id(m, id) ==
    IF id = 0 THEN [maps |-> m, ret |-> Some(0), outcome |-> "ok"]
    ELSE LET r == remove_host_id(m, id)
         IN [maps |-> r.maps,
             ret |-> IF r.ret = 0 THEN None ELSE Some(r.ret),
             outcome |-> r.outcome]

\* A mutant of translate_host_id: the host's ID is handed on as it is.
translate_host_id_raw(m, id) ==
    IF id = 0 THEN Some(0)
    ELSE IF lookup_host_id(m, id) = 0 THEN None
    ELSE Some(id)

\* NotificationEmitter::translate_host_id (lib.rs 448-459)
translate_host_id(m, id) ==
    IF id = 0 THEN Some(0)
    ELSE IF lookup_host_id(m, id) = 0 THEN None
    ELSE Some(lookup_host_id(m, id))

\* closed_stream_handle, lines 70-91: a NotificationClosed signal.  The
\* handler runs when the pipe has room for the frame it transmits (line 89).
HostClosed(id, reason) ==
    /\ host_state = "running"
    /\ signals < MaxSignals
    /\ signals' = signals + 1
    /\ LET r == emitter_remove_host_id(Maps, id)
       IN /\ SetMaps(r.maps)
          /\ host_state' = AfterOutcome(r.outcome)
          /\ IF r.outcome = "ok" /\ r.ret.some
             THEN /\ pipe_h2g = <<>>
                  /\ pipe_h2g' = Append(pipe_h2g, ReplyDismissed(r.ret.v, reason))
             ELSE pipe_h2g' = pipe_h2g
    /\ UNCHANGED <<capabilities, tasks, replied, spawned, pipe_g2h>>
    /\ UNCHANGED <<guestVars, apiVars>>
    /\ UNCHANGED <<wireVars, fnVars, serviceVars>>

\* invoked_stream_handle, lines 94-115: an ActionInvoked signal, transmitted
\* at line 113.
HostInvoked(id, action_key) ==
    /\ host_state = "running"
    /\ signals < MaxSignals
    /\ signals' = signals + 1
    /\ LET g == translate_host_id(Maps, id)
       IN IF g.some
          THEN /\ pipe_h2g = <<>>
               /\ pipe_h2g' = Append(pipe_h2g, ReplyActionInvoked(g.v, action_key))
          ELSE pipe_h2g' = pipe_h2g
    /\ UNCHANGED <<host_state, capabilities, tasks, replied, spawned, pipe_g2h>>
    /\ UNCHANGED <<mapsVars, guestVars, apiVars>>
    /\ UNCHANGED <<wireVars, fnVars, serviceVars>>

\* owner_changed_handle, lines 57-68: a NameOwnerChanged signal.  The handler
\* calls emitter.clear() (lib.rs 460-462) and nothing else.
HostOwnerChanged ==
    /\ host_state = "running"
    /\ signals < MaxSignals
    /\ signals' = signals + 1
    /\ SetMaps(clear(Maps))
    /\ UNCHANGED <<host_state, capabilities, tasks, replied, spawned, pipe_g2h, pipe_h2g>>
    /\ UNCHANGED <<guestVars, apiVars>>
    /\ UNCHANGED <<wireVars, fnVars, serviceVars>>

HostNext ==
    \/ HostRead
    \/ \E t \in Tasks : HostSendStart(t)
    \/ \E t \in Tasks, answer \in ServiceAnswers : HostSendFinish(t, answer)
    \/ \E t \in Tasks : HostTransmit(t)
    \/ \E id \in 0..MaxHostId, reason \in Reasons : HostClosed(id, reason)
    \/ \E id \in 0..MaxHostId, k \in ActionKeys : HostInvoked(id, k)
    \/ HostOwnerChanged

(***************************************************************************)
(* The wire: versions and what travels on the pipe.                        *)
(***************************************************************************)
\* lib.rs 123-124
MAJOR_VERSION == 1
MINOR_VERSION == 0

\* Stand-in for MAX_MESSAGE_SIZE (lib.rs 46, 0x1_000_000 bytes).
MAX_MESSAGE_SIZE == 2

\* lib.rs 126-132: the two u16 halves of a u32 (no bit is lost: a u16
\* shifted by 16 fits a u32).
merge_versions(major, minor) == (major % 2^16) * 2^16 + (minor % 2^16)
\* A mutant of split_version: both halves taken from the low 16 bits.
split_version_low(combined) == <<combined % 2^16, combined % 2^16>>

split_version(combined) == <<(combined \div 2^16) % 2^16, combined % 2^16>>

\* The versions a peer may have been built with: this source's, a later
\* minor, a later major.
Builds ==
    {<<major, minor>> : major \in {MAJOR_VERSION, MAJOR_VERSION + 1},
                        minor \in {MINOR_VERSION, MINOR_VERSION + 1}}

\* What one write puts on the pipe: a little-endian u32 (write_u32_le) or a
\* run of n payload bytes (write_all).  `by` remembers who wrote it: Main
\* for the handshake code, else the producer.
Main == <<"main", 0>>
Free == <<"free", 0>>
U32(by, v) == [kind |-> "u32", by |-> by, v |-> v]
Bytes(by, n) == [kind |-> "bytes", by |-> by, v |-> n]

\* Payload sizes of the frames written: the largest a reader accepts, and
\* one more.
Sizes == {MAX_MESSAGE_SIZE, MAX_MESSAGE_SIZE + 1}

\* Both processes at their start.
WireStart ==
    /\ versions \in [host : Builds, guest : Builds]
    /\ <<MAJOR_VERSION, MINOR_VERSION>> \in {versions.host, versions.guest}
    /\ host_main = "start"
    /\ guest_main = "start"
    /\ sent_g2h = <<>>
    /\ sent_h2g = <<>>
    /\ read_g2h = -1
    /\ read_h2g = -1
    /\ host_need = -1
    /\ guest_need = -1
    /\ host_writers = EmptyMap
    /\ guest_writers = EmptyMap
    /\ host_out = Free
    /\ guest_out = Free

\* Both processes past a handshake between two builds of this source.
WirePast ==
    /\ versions = [host |-> <<MAJOR_VERSION, MINOR_VERSION>>,
                   guest |-> <<MAJOR_VERSION, MINOR_VERSION>>]
    /\ host_main = "framed"
    /\ guest_main = "framed"
    /\ sent_g2h = <<>>
    /\ sent_h2g = <<>>
    /\ read_g2h = merge_versions(MAJOR_VERSION, MINOR_VERSION)
    /\ read_h2g = merge_versions(MAJOR_VERSION, MINOR_VERSION)
    /\ host_need = -1
    /\ guest_need = -1
    /\ host_writers = EmptyMap
    /\ guest_writers = EmptyMap
    /\ host_out = Free
    /\ guest_out = Free

(***************************************************************************)
(* The two processes joined by the pipe, the real service and the local    *)
(* applications around them.  Both sides are past the version handshake.   *)
(***************************************************************************)
InitMessages ==
    /\ guest_to_host_map = MapsDefault.g2h
    /\ host_to_guest_map = MapsDefault.h2g
    /\ last_id = MapsDefault.last
    /\ host_state = "running"
    /\ capabilities \in {{}, {"actions"}}
    /\ tasks = EmptyBag
    /\ pipe_g2h = <<>>
    /\ pipe_h2g = <<>>
    /\ replied = {}
    /\ spawned = 0
    /\ signals = 0
    /\ guest_state = "running"
    /\ next_seq = 0
    /\ calls = EmptyMap
    /\ guest_lock = -1
    /\ map = {}
    /\ api = NoCall
    /\ issued = {}
    /\ service = [open |-> {}, emitted |-> 0, misused |-> FALSE]
    /\ events = [closed |-> <<>>, invoked |-> <<>>, owner |-> <<>>,
                 held |-> [closed |-> <<>>, invoked |-> <<>>],
                 written |-> [closed |-> 0, invoked |-> 0]]

\* The result of a function that has not been applied, and of one that has.
Unapplied == [applied |-> FALSE, value |-> <<>>]
Applied(value) == [applied |-> TRUE, value |-> value]

\* No function is looked at on its own.
Idle == input = <<>> /\ output = Unapplied

Init == InitMessages /\ WirePast /\ Idle

\* The initial state with a real service that advertises no capability
\* (used where the capabilities play no part).
InitPlain == Init /\ capabilities = {}

Next == GuestNext \/ HostNext

Spec == Init /\ [][Next]_vars

(***************************************************************************)
(* The host against an arbitrary peer on the pipe: what the host reads is  *)
(* untrusted, so any well-formed Message may arrive, with any sequence.    *)
(* The peer takes the frames the host writes.                              *)
(***************************************************************************)
PeerRequest(id, n) ==
    /\ spawned < MaxCalls
    /\ pipe_g2h = <<>>
    /\ pipe_g2h' = Append(pipe_g2h, [id |-> id, notification |-> n])
    /\ UNCHANGED <<mapsVars, hostVars, guestVars, apiVars, pipe_h2g>>
    /\ UNCHANGED <<wireVars, fnVars, serviceVars>>

PeerTake ==
    /\ pipe_h2g # <<>>
    /\ pipe_h2g' = Tail(pipe_h2g)
    /\ UNCHANGED <<mapsVars, hostVars, guestVars, apiVars, pipe_g2h>>
    /\ UNCHANGED <<wireVars, fnVars, serviceVars>>

\* The sequences an arbitrary peer puts in its frames.
PeerSequences == {0, 1}

HostPeerNext ==
    \/ \E id \in PeerSequences, n \in NotifyInputs : PeerRequest(id, n)
    \/ PeerTake

NextHost == HostPeerNext \/ HostNext

SpecHost == Init /\ [][NextHost]_vars

(***************************************************************************)
(* The guest agent against an arbitrary peer: any ReplyMessage may arrive. *)
(***************************************************************************)
PeerFrames ==
    {ReplyId(g, q) : g \in HostIds, q \in PeerSequences}
    \cup {ReplyDBusError("org.freedesktop.DBus.Error.Failed", Some("refused"), q) :
             q \in PeerSequences}
    \cup {ReplyUnknownError(q) : q \in PeerSequences}
    \cup {ReplyDismissed(1, 3), ReplyActionInvoked(1, <<"k">>), ReplyServerRestart}

PeerReply(f) ==
    /\ pipe_h2g = <<>>
    /\ pipe_h2g' = Append(pipe_h2g, f)
    /\ UNCHANGED <<mapsVars, hostVars, guestVars, apiVars, pipe_g2h>>
    /\ UNCHANGED <<wireVars, fnVars, serviceVars>>

GuestPeerNext == \E f \in PeerFrames : PeerReply(f)

NextGuest == GuestNext \/ GuestReplyServerRestart \/ GuestPeerNext

SpecGuest == InitPlain /\ [][NextGuest]_vars

(***************************************************************************)
(* The mapping on its own: any sequence of calls of its API.  `api` names  *)
(* the last call and its outcome and, for an allocation without a hint,    *)
(* what it returned and whether its loop stepped over a live guest ID.     *)
(* A guest hint is a guest ID the mapping once returned (a caller has it   *)
(* from a replaces_id that lookup_guest_id resolved before the real        *)
(* service was awaited).                                                   *)
(***************************************************************************)
MapsNextId(id, guest_id) ==
    /\ host_state = "running"
    /\ LET r == next_id(Maps, id, guest_id)
       IN /\ SetMaps(r.maps)
          /\ host_state' = AfterOutcome(r.outcome)
          /\ api' = IF guest_id = 0
                    THEN ApiCall("next_id", r.ret, r.outcome,
                                 r.outcome = "ok" /\ r.ret # next(last_id))
                    ELSE ApiCall("next_id_hint", 0, r.outcome, FALSE)
          /\ issued' = IF r.outcome = "ok" THEN issued \cup {r.ret} ELSE issued
    /\ UNCHANGED <<capabilities, tasks, replied, spawned, signals, guestVars,
                   pipe_g2h, pipe_h2g>>
    /\ UNCHANGED <<wireVars, fnVars, serviceVars>>

MapsLookupGuestId(id) ==
    /\ host_state = "running"
    /\ api' = ApiCall("lookup_guest_id", 0, "ok", FALSE)
    /\ UNCHANGED <<mapsVars, hostVars, guestVars, issued, pipe_g2h, pipe_h2g>>
    /\ UNCHANGED <<wireVars, fnVars, serviceVars>>

MapsLookupHostId(id) ==
    /\ host_state = "running"
    /\ api' = ApiCall("lookup_host_id", 0, "ok", FALSE)
    /\ UNCHANGED <<mapsVars, hostVars, guestVars, issued, pipe_g2h, pipe_h2g>>
    /\ UNCHANGED <<wireVars, fnVars, serviceVars>>

MapsRemoveHostId(id) ==
    /\ host_state = "running"
    /\ LET r == remove_host_id(Maps, id)
       IN /\ SetMaps(r.maps)
          /\ host_state' = AfterOutcome(r.outcome)
          /\ api' = ApiCall("remove_host_id", 0, r.outcome, FALSE)
    /\ UNCHANGED <<capabilities, tasks, replied, spawned, signals, guestVars,
                   issued, pipe_g2h, pipe_h2g>>
    /\ UNCHANGED <<wireVars, fnVars, serviceVars>>

MapsClear ==
    /\ host_state = "running"
    /\ SetMaps(clear(Maps))
    /\ api' = ApiCall("clear", 0, "ok", FALSE)
    /\ UNCHANGED <<hostVars, guestVars, issued, pipe_g2h, pipe_h2g>>
    /\ UNCHANGED <<wireVars, fnVars, serviceVars>>

NextMaps ==
    \/ \E id \in HostIds, guest_id \in {0} \cup issued : MapsNextId(id, guest_id)
    \/ \E id \in Ids : MapsLookupGuestId(id)
    \/ \E id \in HostIds : MapsLookupHostId(id)
    \/ \E id \in HostIds : MapsRemoveHostId(id)
    \/ MapsClear

SpecMaps == InitPlain /\ [][NextMaps]_vars

(***************************************************************************)
(* The wire: both processes from their start.  The handshake, then frames  *)
(* with opaque payloads: every producer of a side writes through that      *)
(* side's mutex, and each side's main loop reads what the other wrote.     *)
(***************************************************************************)
\* A mutant of Unlocked: the lock is handed out whoever holds it.
Unlocked_always(holder) == TRUE

\* tokio::sync::Mutex: lock().await goes through when nobody holds it.
Unlocked(holder) == holder = Free

\* A mutant of TooLarge: a frame of exactly the ceiling is refused.
TooLarge_at_ceiling(size) == size >= MAX_MESSAGE_SIZE

\* The size test of both read loops (server 125-127, client 291-293).
TooLarge(size) == size > MAX_MESSAGE_SIZE

\* A producer about to write a frame of n payload bytes, or having written
\* the size of it.
Writer(stage, n) == [stage |-> stage, len |-> n]

\* A mutant of Handshaken: the framed code runs from the start.
Handshaken_any(main) == main # "aborted"

\* client_server of both programs reaches its framed part (the message
\* writer, the event tasks, the D-Bus server, the read loop) only past the
\* handshake, and a panic ends the process.
Handshaken(main) == main = "framed"

\* What the reader of a stream finds next, given how much it consumed.
Available(sent) == sent # <<>>
NextItem(sent) == Head(sent)

\* Server handshake, lines 32-38: write and flush the version word.
WireHostWriteVersion ==
    /\ host_main = "start"
    /\ sent_h2g' = Append(sent_h2g,
          U32(Main, merge_versions(versions.host[1], versions.host[2])))
    /\ host_main' = "wrote"
    /\ UNCHANGED <<versions, guest_main, sent_g2h, read_g2h, read_h2g,
                   host_need, guest_need, host_writers, guest_writers,
                   host_out, guest_out>>
    /\ UNCHANGED <<mapsVars, hostVars, guestVars, apiVars, pipe_g2h, pipe_h2g>>
    /\ UNCHANGED <<fnVars, serviceVars>>

\* Server handshake, lines 39-51: read the reply and test it.
WireHostReadVersion ==
    /\ host_main = "wrote"
    /\ Available(sent_g2h)
    /\ LET reply == split_version(NextItem(sent_g2h).v)
       IN host_main' = IF \/ reply[1] # versions.host[1]
                          \/ reply[2] > versions.host[2]
                       THEN "aborted" ELSE "framed"
    /\ read_g2h' = NextItem(sent_g2h).v
    /\ sent_g2h' = Tail(sent_g2h)
    /\ UNCHANGED <<versions, guest_main, sent_h2g, read_h2g,
                   host_need, guest_need, host_writers, guest_writers,
                   host_out, guest_out>>
    /\ UNCHANGED <<mapsVars, hostVars, guestVars, apiVars, pipe_g2h, pipe_h2g>>
    /\ UNCHANGED <<fnVars, serviceVars>>

\* A mutant of min: the guest answers with its own minor.
min_other(self, other) == other

\* Ord::min of client line 247, (daemon_minor_version as u16).min(MINOR_VERSION).
min(self, other) == IF self < other THEN self ELSE other

\* Client handshake, lines 241-246: read the daemon's version word.
WireGuestReadVersion ==
    /\ guest_main = "start"
    /\ Available(sent_h2g)
    /\ guest_main' = "read"
    /\ read_h2g' = NextItem(sent_h2g).v
    /\ sent_h2g' = Tail(sent_h2g)
    /\ UNCHANGED <<versions, host_main, sent_g2h, read_g2h,
                   host_need, guest_need, host_writers, guest_writers,
                   host_out, guest_out>>
    /\ UNCHANGED <<mapsVars, hostVars, guestVars, apiVars, pipe_g2h, pipe_h2g>>
    /\ UNCHANGED <<fnVars, serviceVars>>

\* Client handshake, lines 247-260: answer with the own major and the
\* smaller minor, flush, then test the daemon's major.
WireGuestWriteVersion ==
    /\ guest_main = "read"
    /\ LET daemon == split_version(read_h2g)
           minor_version == min(daemon[2], versions.guest[2])
       IN /\ sent_g2h' = Append(sent_g2h,
                U32(Main, merge_versions(versions.guest[1], minor_version)))
          /\ guest_main' = IF daemon[1] # versions.guest[1]
                           THEN "aborted" ELSE "framed"
    /\ UNCHANGED <<versions, host_main, sent_h2g, read_g2h, read_h2g,
                   host_need, guest_need, host_writers, guest_writers,
                   host_out, guest_out>>
    /\ UNCHANGED <<mapsVars, hostVars, guestVars, apiVars, pipe_g2h, pipe_h2g>>
    /\ UNCHANGED <<fnVars, serviceVars>>

\* Server::notify, client 209-213: a Notify call takes the next sequence
\* number and serialises its request, of any size (the guest's writer puts
\* no ceiling on it).
WireGuestNotify(n) ==
    /\ Handshaken(guest_main)
    /\ next_seq < MaxCalls
    /\ guest_writers' = Insert(guest_writers, <<"notify", next_seq>>,
                               Writer("locking", n))
    /\ next_seq' = next_seq + 1
    /\ UNCHANGED <<versions, host_main, guest_main, sent_g2h, sent_h2g,
                   read_g2h, read_h2g, host_need, guest_need, host_writers,
                   host_out, guest_out>>
    /\ UNCHANGED <<mapsVars, hostVars, guest_state, calls, guest_lock, map,
                   apiVars, pipe_g2h, pipe_h2g>>
    /\ UNCHANGED <<fnVars, serviceVars>>

\* Server::notify, client 214-218: take the lock, write the size.
WireGuestWriteLen(p) ==
    /\ Handshaken(guest_main)
    /\ p \in DOMAIN guest_writers
    /\ guest_writers[p].stage = "locking"
    /\ Unlocked(guest_out)
    /\ guest_out' = p
    /\ sent_g2h' = Append(sent_g2h, U32(p, guest_writers[p].len))
    /\ guest_writers' = Insert(guest_writers, p,
                               Writer("size", guest_writers[p].len))
    /\ UNCHANGED <<versions, host_main, guest_main, sent_h2g, read_g2h,
                   read_h2g, host_need, guest_need, host_writers, host_out>>
    /\ UNCHANGED <<mapsVars, hostVars, guestVars, apiVars, pipe_g2h, pipe_h2g>>
    /\ UNCHANGED <<fnVars, serviceVars>>

\* Server::notify, client 219-228: write the payload, flush, record the
\* waiter and drop the guard.
WireGuestWriteData(p) ==
    /\ Handshaken(guest_main)
    /\ p \in DOMAIN guest_writers
    /\ guest_writers[p].stage = "size"
    /\ sent_g2h' = Append(sent_g2h, Bytes(p, guest_writers[p].len))
    /\ guest_out' = Free
    /\ guest_writers' = Remove(guest_writers, p)
    /\ UNCHANGED <<versions, host_main, guest_main, sent_h2g, read_g2h,
                   read_h2g, host_need, guest_need, host_writers, host_out>>
    /\ UNCHANGED <<mapsVars, hostVars, guestVars, apiVars, pipe_g2h, pipe_h2g>>
    /\ UNCHANGED <<fnVars, serviceVars>>

\* Server read loop, lines 118-127: read a size and test it.
WireHostReadSize ==
    /\ Handshaken(host_main)
    /\ host_need = -1
    /\ Available(sent_g2h)
    /\ LET size == NextItem(sent_g2h).v
       IN IF TooLarge(size)
          THEN host_main' = "aborted" /\ host_need' = host_need
          ELSE host_main' = host_main /\ host_need' = size
    /\ sent_g2h' = Tail(sent_g2h)
    /\ UNCHANGED <<versions, guest_main, sent_h2g, read_g2h, read_h2g,
                   guest_need, host_writers, guest_writers, host_out,
                   guest_out>>
    /\ UNCHANGED <<mapsVars, hostVars, guestVars, apiVars, pipe_g2h, pipe_h2g>>
    /\ UNCHANGED <<fnVars, serviceVars>>

\* Server read loop, lines 128-162: read the payload and spawn the task
\* that handles it; the task ends by transmitting a reply of some size.
WireHostReadPayload(n) ==
    /\ Handshaken(host_main)
    /\ host_need >= 0
    /\ Available(sent_g2h)
    /\ sent_g2h' = Tail(sent_g2h)
    /\ host_need' = -1
    /\ host_writers' = Insert(host_writers, <<"reply", spawned>>,
                              Writer("locking", n))
    /\ spawned' = spawned + 1
    /\ UNCHANGED <<versions, host_main, guest_main, sent_h2g, read_g2h,
                   read_h2g, guest_need, guest_writers, host_out, guest_out>>
    /\ UNCHANGED <<mapsVars, host_state, capabilities, tasks, replied,
                   signals, guestVars, apiVars, pipe_g2h, pipe_h2g>>
    /\ UNCHANGED <<fnVars, serviceVars>>

\* Server lines 57-115: one of the event tasks receives a signal of the real
\* service and is about to transmit it.
WireHostSignal(event, n) ==
    /\ Handshaken(host_main)
    /\ signals < MaxSignals
    /\ <<event, 0>> \notin DOMAIN host_writers
    /\ host_writers' = Insert(host_writers, <<event, 0>>,
                              Writer("locking", n))
    /\ signals' = signals + 1
    /\ UNCHANGED <<versions, host_main, guest_main, sent_g2h, sent_h2g,
                   read_g2h, read_h2g, host_need, guest_need, guest_writers,
                   host_out, guest_out>>
    /\ UNCHANGED <<mapsVars, host_state, capabilities, tasks, replied,
                   spawned, guestVars, apiVars, pipe_g2h, pipe_h2g>>
    /\ UNCHANGED <<fnVars, serviceVars>>

\* MessageWriter::transmit, lib.rs 372-379: take the lock, write the size.
WireHostWriteLen(p) ==
    /\ Handshaken(host_main)
    /\ p \in DOMAIN host_writers
    /\ host_writers[p].stage = "locking"
    /\ Unlocked(host_out)
    /\ host_out' = p
    /\ sent_h2g' = Append(sent_h2g, U32(p, host_writers[p].len))
    /\ host_writers' = Insert(host_writers, p,
                              Writer("size", host_writers[p].len))
    /\ UNCHANGED <<versions, host_main, guest_main, sent_g2h, read_g2h,
                   read_h2g, host_need, guest_need, guest_writers, guest_out>>
    /\ UNCHANGED <<mapsVars, hostVars, guestVars, apiVars, pipe_g2h, pipe_h2g>>
    /\ UNCHANGED <<fnVars, serviceVars>>

\* MessageWriter::transmit, lib.rs 380-384: write the payload, flush, and
\* let the guard go.
WireHostWriteData(p) ==
    /\ Handshaken(host_main)
    /\ p \in DOMAIN host_writers
    /\ host_writers[p].stage = "size"
    /\ sent_h2g' = Append(sent_h2g, Bytes(p, host_writers[p].len))
    /\ host_out' = Free
    /\ host_writers' = Remove(host_writers, p)
    /\ UNCHANGED <<versions, host_main, guest_main, sent_g2h, read_g2h,
                   read_h2g, host_need, guest_need, guest_writers, guest_out>>
    /\ UNCHANGED <<mapsVars, hostVars, guestVars, apiVars, pipe_g2h, pipe_h2g>>
    /\ UNCHANGED <<fnVars, serviceVars>>

\* Client reply loop, lines 285-293: read a size and test it.
WireGuestReadSize ==
    /\ Handshaken(guest_main)
    /\ guest_need = -1
    /\ Available(sent_h2g)
    /\ LET size == NextItem(sent_h2g).v
       IN IF TooLarge(size)
          THEN guest_main' = "aborted" /\ guest_need' = guest_need
          ELSE guest_main' = guest_main /\ guest_need' = size
    /\ sent_h2g' = Tail(sent_h2g)
    /\ UNCHANGED <<versions, host_main, sent_g2h, read_g2h, read_h2g,
                   host_need, host_writers, guest_writers, host_out,
                   guest_out>>
    /\ UNCHANGED <<mapsVars, hostVars, guestVars, apiVars, pipe_g2h, pipe_h2g>>
    /\ UNCHANGED <<fnVars, serviceVars>>

\* Client reply loop, lines 294-353: read the payload and act on the reply.
WireGuestReadPayload ==
    /\ Handshaken(guest_main)
    /\ guest_need >= 0
    /\ Available(sent_h2g)
    /\ sent_h2g' = Tail(sent_h2g)
    /\ guest_need' = -1
    /\ UNCHANGED <<versions, host_main, guest_main, sent_g2h, read_g2h,
                   read_h2g, host_need, host_writers, guest_writers,
                   host_out, guest_out>>
    /\ UNCHANGED <<mapsVars, hostVars, guestVars, apiVars, pipe_g2h, pipe_h2g>>
    /\ UNCHANGED <<fnVars, serviceVars>>



\* The two signals of the real service that the host forwards.
Events == {"closed", "invoked"}

InitWire == InitMessages /\ capabilities = {} /\ WireStart /\ Idle

NextWire ==
    \/ WireHostWriteVersion
    \/ WireHostReadVersion
    \/ WireGuestReadVersion
    \/ WireGuestWriteVersion
    \/ \E n \in Sizes : WireGuestNotify(n)
    \/ \E p \in DOMAIN guest_writers : WireGuestWriteLen(p)
    \/ \E p \in DOMAIN guest_writers : WireGuestWriteData(p)
    \/ WireHostReadSize
    \/ \E n \in Sizes : WireHostReadPayload(n)
    \/ \E event \in Events, n \in Sizes : WireHostSignal(event, n)
    \/ \E p \in DOMAIN host_writers : WireHostWriteLen(p)
    \/ \E p \in DOMAIN host_writers : WireHostWriteData(p)
    \/ WireGuestReadSize
    \/ WireGuestReadPayload

SpecWire == InitWire /\ [][NextWire]_vars

(***************************************************************************)
(* Properties of the wire (SpecWire).                                      *)
(***************************************************************************)
\* A step that writes to a direction, and what it wrote.
HostWrites == Len(sent_h2g') > Len(sent_h2g)
GuestWrites == Len(sent_g2h') > Len(sent_g2h)
HostWrote == sent_h2g'[Len(sent_h2g')]
GuestWrote == sent_g2h'[Len(sent_g2h')]

\* A step in which a side takes up or handles a framed message.
HostFrames ==
    \/ HostWrites /\ HostWrote.by # Main
    \/ host_need' # host_need
    \/ host_writers' # host_writers
GuestFrames ==
    \/ GuestWrites /\ GuestWrote.by # Main
    \/ guest_need' # guest_need
    \/ guest_writers' # guest_writers

\* C11: each side writes its unframed version word exactly once, at its
\* start (the host) or right after it read the peer's word (the guest);
\* whatever a side does with framed messages, writing or reading, it does
\* after it wrote its word and read the peer's; and a side past the
\* handshake writes nothing unframed.
C11_HandshakeFirst ==
    [][/\ HostWrites /\ HostWrote.by = Main
            => host_main = "start" /\ host_main' = "wrote"
       /\ host_main = "start" /\ host_main' # "start"
            => HostWrites /\ HostWrote.by = Main
       /\ host_main' = "framed" => host_main \in {"wrote", "framed"}
       /\ host_main = "wrote" /\ host_main' # "wrote" => read_g2h' # -1
       /\ HostFrames => host_main = "framed" /\ read_g2h # -1
       /\ GuestWrites /\ GuestWrote.by = Main
            => guest_main = "read" /\ guest_main' \in {"framed", "aborted"}
       /\ guest_main = "read" /\ guest_main' # "read"
            => GuestWrites /\ GuestWrote.by = Main
       /\ guest_main' = "framed" => guest_main \in {"read", "framed"}
       /\ guest_main = "start" /\ guest_main' # "start"
            => guest_main' = "read" /\ read_h2g' # -1
       /\ GuestFrames => guest_main = "framed" /\ read_h2g # -1
      ]_vars

\* Both sides are past the handshake and exchange frames: the guest has read
\* a frame the host wrote.
C11_Framing ==
    /\ host_main = "framed"
    /\ guest_main = "framed"
    /\ spawned > 0
    /\ guest_need >= 0

\* C39: between two builds with the same major, whatever their minors,
\* the test that ends the handshake of either side lets it through to its
\* framed part, and the handshake cannot come to rest before that: as long
\* as a side is in its handshake, a write or a read of a version word can
\* be done.
C39_HandshakeCompletes ==
    /\ [](versions.host[1] = versions.guest[1]
            /\ (host_main \in {"start", "wrote"} \/ guest_main \in {"start", "read"})
            => ENABLED (\/ WireHostWriteVersion
                        \/ WireHostReadVersion
                        \/ WireGuestReadVersion
                        \/ WireGuestWriteVersion))
    /\ [][versions.host[1] = versions.guest[1] =>
            /\ WireHostReadVersion => Handshaken(host_main')
            /\ WireGuestWriteVersion => Handshaken(guest_main')]_vars

\* A guest of a later minor and a host of this build are both framed.
C39_BothFramed ==
    /\ versions.host[1] = versions.guest[1]
    /\ versions.guest[2] > versions.host[2]
    /\ Handshaken(host_main)
    /\ Handshaken(guest_main)
    /\ read_g2h = merge_versions(versions.host[1], versions.host[2])

\* C12: when the two sides were built with different majors, neither side
\* gets to its framed part (no frame is written, read or handled), and the
\* exchange cannot come to rest before both processes have aborted.
C12_MajorMismatchAborts ==
    versions.host[1] # versions.guest[1] =>
        /\ host_main # "framed"
        /\ guest_main # "framed"
        /\ host_need = -1
        /\ guest_need = -1
        /\ host_writers = EmptyMap
        /\ guest_writers = EmptyMap
        /\ spawned = 0
        /\ next_seq = 0
        /\ \A i \in 1..Len(sent_h2g) : sent_h2g[i].by = Main
        /\ \A i \in 1..Len(sent_g2h) : sent_g2h[i].by = Main
        /\ ~ENABLED NextWire => host_main = "aborted" /\ guest_main = "aborted"

\* The majors differ and both processes have aborted.
C12_BothAborted ==
    /\ versions.host[1] # versions.guest[1]
    /\ host_main = "aborted"
    /\ guest_main = "aborted"

\* A stream that is whole frames, each a size and then that many payload
\* bytes of the same producer, with at most the size of a frame in progress
\* at its end.
RECURSIVE WholeFrames(_)
WholeFrames(stream) ==
    \/ stream = <<>>
    \/ Len(stream) = 1 /\ stream[1].kind = "u32"
    \/ /\ Len(stream) >= 2
       /\ stream[1].kind = "u32"
       /\ stream[2].kind = "bytes"
       /\ stream[2].by = stream[1].by
       /\ stream[2].v = stream[1].v
       /\ WholeFrames(SubSeq(stream, 3, Len(stream)))

\* What is left of a stream's framed part for a reader that has read the
\* size `need` (-1: none) and stands at `main`: past the version word, and
\* past the payload of the size it read.
Unread(stream, main, need) ==
    LET framed == IF stream # <<>> /\ stream[1].by = Main
                  THEN Tail(stream) ELSE stream
    IN IF framed # <<>> /\ framed[1].kind = "bytes"
          /\ (need = framed[1].v \/ main = "aborted")
       THEN Tail(framed) ELSE framed

C40_GuestFramesFit ==
    /\ \A i \in 1..Len(sent_g2h) :
          (sent_g2h[i].kind = "u32" /\ sent_g2h[i].by # Main)
              => sent_g2h[i].v <= MAX_MESSAGE_SIZE
    /\ Handshaken(guest_main) => host_main # "aborted"

\* A step in which a reader takes something off its pipe.
HostReads == Len(sent_g2h') < Len(sent_g2h)
GuestReads == Len(sent_h2g') < Len(sent_h2g)

\* C14: a reader that reads a size above MAX_MESSAGE_SIZE ends there: it
\* aborts, and reads and handles nothing after; a reader that reads a size
\* of at most MAX_MESSAGE_SIZE goes on to read a payload of that size, and
\* handles it (the host spawns the task of the request, the guest goes
\* through its dispatch and back to the next size).
C14_SizeCeiling ==
    [][/\ host_main = "framed" /\ host_need = -1 /\ HostReads =>
            LET size == Head(sent_g2h).v
            IN IF size > MAX_MESSAGE_SIZE
               THEN host_main' = "aborted" /\ spawned' = spawned
               ELSE host_main' = "framed" /\ host_need' = size
       /\ host_main = "framed" /\ host_need >= 0 /\ HostReads =>
            /\ Head(sent_g2h) = Bytes(Head(sent_g2h).by, host_need)
            /\ spawned' = spawned + 1
            /\ host_need' = -1
       /\ host_main = "aborted" =>
            ~HostReads /\ spawned' = spawned /\ host_main' = "aborted"
       /\ guest_main = "framed" /\ guest_need = -1 /\ GuestReads =>
            LET size == Head(sent_h2g).v
            IN IF size > MAX_MESSAGE_SIZE
               THEN guest_main' = "aborted"
               ELSE guest_main' = "framed" /\ guest_need' = size
       /\ guest_main = "framed" /\ guest_need >= 0 /\ GuestReads =>
            /\ Head(sent_h2g) = Bytes(Head(sent_h2g).by, guest_need)
            /\ guest_need' = -1
            /\ guest_main' = "framed"
       /\ guest_main = "aborted" => ~GuestReads /\ guest_main' = "aborted"
      ]_vars

\* The host has handled a frame and then aborted on a size above the
\* ceiling, whose payload is left on the pipe.
C14_Refused ==
    /\ versions.host[1] = versions.guest[1]
    /\ spawned > 0
    /\ host_main = "aborted"
    /\ sent_g2h # <<>>
    /\ Head(sent_g2h).kind = "bytes"
    /\ Head(sent_g2h).v > MAX_MESSAGE_SIZE

(***************************************************************************)
(* Properties of the mapping (SpecMaps).                                   *)
(***************************************************************************)

\* C1: in every state of a running host's mapping, guest_to_host[g] = h if
\* and only if host_to_guest[h] = g.
C1_InverseMaps ==
    host_state = "running" =>
        \A g \in Ids, h \in HostIds :
            (Get(guest_to_host_map, g) = h) <=> (Get(host_to_guest_map, h) = g)

\* C4: an allocation without a hint, made while some guest ID is free, does
\* not spin, and when it returns it returns a guest ID that was no key of
\* guest_to_host just before the call and is now bound to the host ID.
C4_FreshGuestId ==
    [][(api'.op = "next_id" /\ DOMAIN guest_to_host_map # Ids) =>
          /\ api'.outcome # "spin"
          /\ api'.outcome = "ok" =>
                /\ api'.ret \in Ids \ DOMAIN guest_to_host_map
                /\ api'.ret \in DOMAIN guest_to_host_map']_vars

\* C4 happens: an allocation without a hint returned after skipping a live
\* guest ID.
C4_Skipped ==
    /\ api.op = "next_id"
    /\ api.outcome = "ok"
    /\ api.skipped

\* C37: last_id is never zero and stays within 1..MaxU32 (2^32 - 1 in the
\* code).  An allocation without a hint that returns or panics has moved it
\* to the first guest ID after it, in the cyclic order in which 1 follows
\* MaxU32, that was not live before the call: at least one step, and over
\* live IDs only.  lookup_guest_id, lookup_host_id, remove_host_id and clear
\* leave it as it was.
C37_LastId ==
    [][/\ last_id \in 1..MaxU32
       /\ last_id' \in 1..MaxU32
       /\ (api'.op = "next_id" /\ api'.outcome # "spin") =>
             LET first == IF last_id = MaxU32 THEN 1 ELSE last_id + 1
                 steps == IF last_id' >= first THEN last_id' - first
                          ELSE last_id' + MaxU32 - first
             IN  /\ last_id' \notin DOMAIN guest_to_host_map
                 /\ \A k \in 0..(steps - 1) :
                       (IF first + k > MaxU32 THEN first + k - MaxU32
                        ELSE first + k) \in DOMAIN guest_to_host_map
       /\ api'.op \in {"lookup_guest_id", "lookup_host_id", "remove_host_id",
                       "clear"} => last_id' = last_id]_vars

\* An allocation without a hint has taken last_id from MaxU32 round to 1.
C37_Wrapped ==
    /\ api.op = "next_id"
    /\ api.outcome = "ok"
    /\ api.ret = 1
    /\ last_id = 1

\* C5: no allocation, hinted or not, that returns normally has replaced an
\* entry of guest_to_host or host_to_guest by one with a different value.
C5_NoOverwrite ==
    [][\A id \in HostIds, guest_id \in 0..MaxU32 :
          (MapsNextId(id, guest_id) /\ host_state' = "running") =>
              /\ \A g \in DOMAIN guest_to_host_map :
                    Get(guest_to_host_map', g) = guest_to_host_map[g]
              /\ \A h \in DOMAIN host_to_guest_map :
                    Get(host_to_guest_map', h) = host_to_guest_map[h]]_vars

(***************************************************************************)
(* Properties of the host (SpecHost: the host with any peer on the pipe).  *)
(***************************************************************************)
\* The step is one of task t, and what it made of t.
Steps(t) == CopiesIn(t, tasks') < CopiesIn(t, tasks)
Stepped(t) ==
    CHOOSE u \in BagToSet(tasks') : CopiesIn(u, tasks') > CopiesIn(u, tasks)

\* C2: the emitter calls the real service with a non-zero replaces_id only
\* when the request's replaces_id is a key of guest_to_host at that moment,
\* and passes guest_to_host[replaces_id]; a request whose non-zero
\* replaces_id is no key gets an error reply for its sequence and no call.
C2_ReplacesOwned ==
    [][\A t \in Tasks :
          (t.stage = "spawned" /\ Steps(t)) =>
              LET u == Stepped(t)
                  r == t.n.replaces_id
              IN /\ (u.stage = "calling" /\ u.host_id_num # 0) =>
                        /\ r \in DOMAIN guest_to_host_map
                        /\ u.host_id_num = guest_to_host_map[r]
                 /\ (r # 0 /\ r \notin DOMAIN guest_to_host_map) =>
                        /\ u.stage = "replying"
                        /\ u.reply.type \in {"DBusError", "UnknownError"}
                        /\ u.reply.sequence = t.sequence]_vars

\* C2 happens: a task is awaiting the real service, called with the host ID
\* of the notification it replaces.
C2_Replacing ==
    \E t \in Tasks : t.stage = "calling" /\ t.host_id_num # 0

\* C6: when a request whose replaces_id g is live succeeds at the real
\* service with host ID h, the host goes on, the reply is Id{g} for the
\* request's sequence, and guest_to_host[g] = h afterwards.
C6_ReplaceKeepsGuestId ==
    [][\A t \in Tasks, answer \in ServiceAnswers :
          (/\ HostSendFinish(t, answer)
           /\ answer.ok /\ answer.v # 0
           /\ t.guest_id \in DOMAIN guest_to_host_map) =>
              /\ host_state' = "running"
              /\ Stepped(t).reply = ReplyId(t.guest_id, t.sequence)
              /\ Get(guest_to_host_map', t.guest_id) = answer.v]_vars

\* C7: on a change of the real service's bus-name owner the host clears both
\* maps and writes one ServerRestart frame.
C7_RestartAnnounced ==
    [][HostOwnerChanged =>
          /\ guest_to_host_map' = EmptyMap
          /\ host_to_guest_map' = EmptyMap
          /\ pipe_h2g' = Append(pipe_h2g, ReplyServerRestart)]_vars

\* C10: a request the host rejects for an untrusted field, its replaces_id
\* being fine, is answered with a DBusError that carries a reason.
C10_RejectionIsDBusError ==
    [][\A t \in Tasks :
          (/\ HostSendStart(t)
           /\ t.n.replaces_id \in {0} \cup DOMAIN guest_to_host_map
           /\ Stepped(t).stage = "replying") =>
              /\ Stepped(t).reply.type = "DBusError"
              /\ Stepped(t).reply.message.some
              /\ Stepped(t).reply.sequence = t.sequence]_vars

\* C26: a request whose actions hold a key that is no valid action name is
\* answered with an error for its sequence and leads to no call of the real
\* service, whatever the real service advertises.
C26_InvalidKeyRejected ==
    [][\A t \in Tasks :
          (/\ HostSendStart(t)
           /\ \E i \in 1..Len(t.n.actions) :
                 i % 2 = 1 /\ ~is_valid_action_name(t.n.actions[i])) =>
              /\ Stepped(t).stage = "replying"
              /\ Stepped(t).reply.type \in {"DBusError", "UnknownError"}
              /\ Stepped(t).reply.sequence = t.sequence]_vars

(***************************************************************************)
(* Properties of the guest agent (SpecGuest: the agent with any peer).     *)
(***************************************************************************)
\* C8: when the agent takes a ServerRestart frame, every waiter parked then
\* is completed with an error, the parking table is empty afterwards and
\* the agent keeps running.
C8_RestartFailsWaiters ==
    [][GuestReplyServerRestart =>
          /\ guest_state' = "running"
          /\ map' = {}
          /\ \A q \in map :
                calls'[q].stage = "done" /\ ~calls'[q].result.ok]_vars

(***************************************************************************)
(* Properties of the two processes together (Spec).                        *)
(***************************************************************************)
\* The agent takes frame f from the pipe.
GuestTakes(f) ==
    /\ pipe_h2g # <<>>
    /\ f = Head(pipe_h2g)
    /\ pipe_h2g' = Tail(pipe_h2g)

\* C3: the host writes at most one reply per request sequence, and when the
\* agent takes an Id, DBusError or UnknownError frame the waiter of its
\* sequence is parked and that slot, and no other, is removed.
C3_OneReplyOneSlot ==
    [][/\ \A t \in Tasks : HostTransmit(t) => t.sequence \notin replied
       /\ \A f \in {pipe_h2g[i] : i \in DOMAIN pipe_h2g} :
             (GuestTakes(f) /\ f.type \in {"Id", "DBusError", "UnknownError"}) =>
                 /\ f.sequence \in map
                 /\ map' = map \ {f.sequence}]_vars

\* C9: when the agent takes an error reply, DBusError or UnknownError, it
\* keeps running, the host is left as it was, and the waiter of that
\* sequence is completed with an error.
C9_FailureKeepsRunning ==
    [][\A f \in {pipe_h2g[i] : i \in DOMAIN pipe_h2g} :
          (GuestTakes(f) /\ f.type \in {"DBusError", "UnknownError"}) =>
              /\ guest_state' = "running"
              /\ host_state' = host_state
              /\ f.sequence \notin map'
              /\ f.sequence \in DOMAIN calls'
              /\ calls'[f.sequence].stage = "done"
              /\ ~calls'[f.sequence].result.ok]_vars

(***************************************************************************)
(* Signals of the real service (SpecHost).                                 *)
(***************************************************************************)
\* What the claim says of the handling of NotificationClosed(id, reason).
ClosedAsClaimed(id, reason) ==
    LET g == Get(host_to_guest_map, id)
    IN IF g # 0
       THEN /\ id \notin DOMAIN host_to_guest_map'
            /\ g \notin DOMAIN guest_to_host_map'
            /\ pipe_h2g' = Append(pipe_h2g, ReplyDismissed(g, reason))
            /\ \A n \in NotifyInputs :
                  n.replaces_id = g =>
                      ~send_notification_start(Maps', capabilities', n).call
       ELSE /\ pipe_h2g' = pipe_h2g
            /\ UNCHANGED mapsVars

\* C15: NotificationClosed(h, reason) with h mapped to g takes h and g out
\* of both maps in the one step and writes Dismissed{g, reason}, after which
\* a Notify with replaces_id = g makes no call to the real service; with h
\* not mapped nothing is written and the maps stay as they are.
C15_Closed ==
    [][\A id \in 0..MaxHostId, reason \in Reasons :
          HostClosed(id, reason) => ClosedAsClaimed(id, reason)]_vars

\* The same for the signals that carry a non-zero ID.
C15_ClosedNonZero ==
    [][\A id \in 1..MaxHostId, reason \in Reasons :
          HostClosed(id, reason) => ClosedAsClaimed(id, reason)]_vars

\* What the claim says of the handling of ActionInvoked(id, action_key).
InvokedAsClaimed(id, action_key) ==
    LET g == Get(host_to_guest_map, id)
    IN /\ UNCHANGED mapsVars
       /\ IF g # 0
          THEN pipe_h2g' = Append(pipe_h2g, ReplyActionInvoked(g, action_key))
          ELSE pipe_h2g' = pipe_h2g

\* C16: the handling of ActionInvoked(h, key) changes neither map nor
\* last_id; it writes ActionInvoked{g, key} when h is mapped to g and nothing
\* when h is not mapped.
C16_Invoked ==
    [][\A id \in 0..MaxHostId, k \in ActionKeys :
          HostInvoked(id, k) => InvokedAsClaimed(id, k)]_vars

\* The same for the signals that carry a non-zero ID.
C16_InvokedNonZero ==
    [][\A id \in 1..MaxHostId, k \in ActionKeys :
          HostInvoked(id, k) => InvokedAsClaimed(id, k)]_vars

\* C38: the Dismissed or ActionInvoked frame that the handling of a signal
\* writes, whatever ID the signal carries, 0 included, has a guest ID that
\* is not 0 and was a key of guest_to_host when the signal was handled.
C38_EventGuestIds ==
    [][\A id \in 0..MaxHostId :
          /\ \/ \E reason \in Reasons : HostClosed(id, reason)
             \/ \E k \in ActionKeys : HostInvoked(id, k)
          /\ pipe_h2g' # pipe_h2g
          => LET f == pipe_h2g'[Len(pipe_h2g')]
             IN  /\ f.type \in {"Dismissed", "ActionInvoked"}
                 /\ f.id # 0
                 /\ f.id \in DOMAIN guest_to_host_map]_vars

\* C19: in a host whose mapping is as Maps::default made it, the Notify with
\* replaces_id 0 that the real service accepts is answered with guest ID 1.
C19_FirstIdIsOne ==
    [][\A t \in Tasks :
          /\ Maps = MapsDefault
          /\ t.stage = "calling"
          /\ t.guest_id = 0
          /\ Steps(t)
          /\ Stepped(t).reply.type = "Id"
          => Stepped(t).reply.id = 1]_vars

(***************************************************************************)
(* src/src/lib.rs: sanitize_str, looked at on its own.  A string is the    *)
(* sequence of its code points, of which five kinds matter.                *)
(***************************************************************************)
\* Stand-ins for MAX_LINES (lib.rs 153, 500) and MAX_CHARS_PER_LINE
\* (lib.rs 154, 1000).
MAX_LINES == 2
MAX_CHARS_PER_LINE == 2

\* The longest argument tried.
MaxLen == 4

\* A printable character, a tab, a line feed, a carriage return, and a code
\* point that is not safe for display; U+FFFD, which replaces the latter.
CodePoints == {"a", "TAB", "LF", "CR", "x15"}
REPLACEMENT_CHARACTER == "FFFD"

\* libqubes-pure's predicate (declared at lib.rs 229-232): no control
\* character is safe for display; letters and punctuation are, the
\* apostrophe ("APOS") and the quotation mark ("QUOT") among them.
qubes_pure_code_point_safe_for_display(c) ==
    c \in {"a", "<", ">", "&", "APOS", "QUOT", ";", REPLACEMENT_CHARACTER}

\* A mutant of TooManyLines: the loop is never left early.
TooManyLines_never(lines) == FALSE

\* A mutant of TooManyLines: one line more goes through.
TooManyLines_late(lines) == lines > MAX_LINES

\* lib.rs 274: the test that ends the loop.
TooManyLines(lines) == lines >= MAX_LINES

\* A mutant of pushed_char: a carriage return is pushed as it is.
pushed_char_cr(c) ==
    IF qubes_pure_code_point_safe_for_display(c) \/ c \in {"TAB", "CR"} THEN c
    ELSE IF c = "LF" THEN "LF"
    ELSE REPLACEMENT_CHARACTER

\* lib.rs 249-267: what is pushed for the code point c.
pushed_char(c) ==
    IF qubes_pure_code_point_safe_for_display(c) \/ c = "TAB" THEN c
    ELSE IF c \in {"LF", "CR"} THEN "LF"
    ELSE REPLACEMENT_CHARACTER

\* A mutant of LineFull: a line may get one code point more.
LineFull_late(counter) == counter > MAX_CHARS_PER_LINE

\* lib.rs 269: the test that wraps the line.
LineFull(counter) == counter >= MAX_CHARS_PER_LINE

\* lib.rs 246-277: the loop from the i-th code point on, with the result,
\* the characters on the current line and the lines so far.
RECURSIVE sanitize_loop(_, _, _, _, _)
sanitize_loop(arg, i, res, counter, lines) ==
    IF i > Len(arg) THEN res
    ELSE LET c == arg[i]
             peek == IF i < Len(arg) THEN arg[i + 1] ELSE "none"
         IN IF c = "CR" /\ peek = "LF"
            THEN sanitize_loop(arg, i + 1, res, counter, lines)
            ELSE LET kept == qubes_pure_code_point_safe_for_display(c)
                             \/ c = "TAB"
                     breaks == c \in {"LF", "CR"}
                     pushed == pushed_char(c)
                     counter1 == IF ~kept /\ breaks THEN 0 ELSE counter + 1
                     lines1 == IF ~kept /\ breaks THEN lines + 1 ELSE lines
                     full == LineFull(counter1)
                     res2 == IF full THEN res \o <<pushed, "LF">>
                             ELSE Append(res, pushed)
                     counter2 == IF full THEN 0 ELSE counter1
                     lines2 == IF full THEN lines1 + 1 ELSE lines1
                 IN IF TooManyLines(lines2) THEN res2
                    ELSE sanitize_loop(arg, i + 1, res2, counter2, lines2)

\* lib.rs 241-279
sanitize_str(arg) == sanitize_loop(arg, 1, <<>>, 0, 0)

\* The strings of at most MaxLen code points.
Strings == UNION {[1..n -> CodePoints] : n \in 0..MaxLen}

InitSanitize ==
    /\ InitMessages
    /\ capabilities = {}
    /\ WirePast
    /\ input \in Strings
    /\ output = Unapplied

ApplySanitize ==
    /\ ~output.applied
    /\ output' = Applied(sanitize_str(input))
    /\ UNCHANGED <<mapsVars, hostVars, guestVars, pipe_g2h, pipe_h2g, apiVars,
                   wireVars, input, serviceVars>>

NextSanitize == ApplySanitize

SpecSanitize == InitSanitize /\ [][NextSanitize]_vars

\* The number of line feeds of a string.
NewLines(str) == Cardinality({i \in 1..Len(str) : str[i] = "LF"})

\* C20: whatever the argument, the result of sanitize_str has at most
\* MAX_LINES line feeds, and no run of more than MAX_CHARS_PER_LINE code
\* points without a line feed (any MAX_CHARS_PER_LINE + 1 code points in a
\* row hold one).
C20_Bounded ==
    output.applied =>
        /\ NewLines(output.value) <= MAX_LINES
        /\ \A i \in 1..(Len(output.value) - MAX_CHARS_PER_LINE) :
              \E k \in i..(i + MAX_CHARS_PER_LINE) : output.value[k] = "LF"

\* An argument without any line break whose result was cut at MAX_LINES
\* full lines.
C20_Cut ==
    /\ output.applied
    /\ \A i \in 1..Len(input) : input[i] \notin {"LF", "CR"}
    /\ NewLines(output.value) = MAX_LINES
    /\ Len(output.value) = (MAX_CHARS_PER_LINE + 1) * MAX_LINES

\* C21: sanitizing a sanitized string changes nothing.
C21_Idempotent ==
    output.applied => sanitize_str(output.value) = output.value

\* What the code points of a string are turned into one by one, a CR LF
\* pair counting as one: the result of sanitizing when no limit is met.
RECURSIVE Translate(_)
Translate(str) ==
    IF str = <<>> THEN <<>>
    ELSE IF Len(str) >= 2 /\ str[1] = "CR" /\ str[2] = "LF"
    THEN <<"LF">> \o Translate(SubSeq(str, 3, Len(str)))
    ELSE LET c == str[1]
             d == IF c \in {"LF", "CR"} THEN "LF"
                  ELSE IF c = "a" \/ c = "TAB" THEN c
                  ELSE "FFFD"
         IN <<d>> \o Translate(Tail(str))

\* A string whose lines all stay below MAX_CHARS_PER_LINE code points.
ShortLines(str) ==
    \A i \in 1..(Len(str) - MAX_CHARS_PER_LINE + 1) :
        \E k \in i..(i + MAX_CHARS_PER_LINE - 1) : str[k] = "LF"

\* C22: the result holds nothing but code points safe for display, tabs,
\* line feeds and U+FFFD, and so no carriage return; and while no limit is
\* met it is the argument with every CR LF pair and every other CR turned
\* into one line feed and every other rejected code point into U+FFFD.
C22_SafeCodePoints ==
    output.applied =>
        /\ \A i \in 1..Len(output.value) :
              /\ output.value[i] \in {"a", "TAB", "LF", "FFFD"}
              /\ output.value[i] # "CR"
        /\ ShortLines(Translate(input)) /\ NewLines(Translate(input)) < MAX_LINES
              => output.value = Translate(input)

\* An argument with a CR LF pair, a lone CR and a rejected code point, below
\* every limit.
C22_Translated ==
    /\ output.applied
    /\ \E i \in 1..(Len(input) - 1) : input[i] = "CR" /\ input[i + 1] = "LF"
    /\ input[Len(input)] = "x15"
    /\ ShortLines(Translate(input))
    /\ NewLines(Translate(input)) < MAX_LINES
    /\ Len(output.value) = Len(input) - 1

\* C23: of an argument of n code points that are kept as they are, the
\* result is these code points with a line feed after every
\* MAX_CHARS_PER_LINE-th of them, after the last one too when n is a
\* multiple, up to MAX_LINES lines; one code point more than a line holds
\* gives a full line, a line feed and the last code point.
C23_HardWrap ==
    output.applied /\ (\A i \in 1..Len(input) : input[i] \in {"a", "TAB"}) =>
        LET n == Len(input)
            full == n \div MAX_CHARS_PER_LINE
            k == IF full >= MAX_LINES THEN MAX_LINES ELSE full
            taken == IF full >= MAX_LINES
                     THEN MAX_LINES * MAX_CHARS_PER_LINE ELSE n
        IN /\ Len(output.value) = taken + k
           /\ \A j \in 1..(taken + k) :
                 output.value[j] =
                     IF j % (MAX_CHARS_PER_LINE + 1) = 0 THEN "LF"
                     ELSE input[j - (j \div (MAX_CHARS_PER_LINE + 1))]

\* An argument of one code point more than a line holds.
C23_OneMore ==
    /\ output.applied
    /\ Len(input) = MAX_CHARS_PER_LINE + 1
    /\ \A i \in 1..Len(input) : input[i] = "a"
    /\ Len(output.value) = MAX_CHARS_PER_LINE + 2
    /\ output.value[MAX_CHARS_PER_LINE + 1] = "LF"

\* The argument up to and including its k-th line end, all of it when it
\* has fewer.
LinesPrefix(str, k) ==
    LET ends == {p \in 0..Len(str) :
                    NewLines(Translate(SubSeq(str, 1, p))) >= k}
    IN IF ends = {} THEN str
       ELSE SubSeq(str, 1, CHOOSE p \in ends : \A q \in ends : p <= q)

\* C24: of an argument whose lines are short, the result is what its code
\* points up to and including the MAX_LINES-th line end are turned into:
\* all of it when it has at most MAX_LINES ended lines and nothing after,
\* and nothing of what follows the MAX_LINES-th line end.
C24_Truncated ==
    output.applied /\ ShortLines(Translate(input)) =>
        output.value = Translate(LinesPrefix(input, MAX_LINES))

\* An argument of short lines with more than MAX_LINES line ends, whose
\* result stops at the MAX_LINES-th.
C24_Discarded ==
    /\ output.applied
    /\ ShortLines(Translate(input))
    /\ NewLines(Translate(input)) > MAX_LINES
    /\ NewLines(output.value) = MAX_LINES
    /\ Len(output.value) < Len(Translate(input))

(***************************************************************************)
(* The body handed to the real service (lib.rs 597-618).                   *)
(***************************************************************************)
\* The code points a body is made of here: a letter, the five code points
\* of markup, a semicolon and a carriage return.
BodyCodePoints == {"a", "<", ">", "&", "APOS", "QUOT", ";", "CR"}

\* lib.rs 607-614: what is pushed for one code point of the sanitized body.
escape_char(i) ==
    CASE i = "<" -> <<"&", "l", "t", ";">>
      [] i = ">" -> <<"&", "g", "t", ";">>
      [] i = "&" -> <<"&", "a", "m", "p", ";">>
      [] i = "APOS" -> <<"&", "a", "p", "o", "s", ";">>
      [] i = "QUOT" -> <<"&", "q", "u", "o", "t", ";">>
      [] OTHER -> <<i>>

\* lib.rs 606-616: the loop over the sanitized body.
RECURSIVE escape_loop(_)
escape_loop(body) ==
    IF body = <<>> THEN <<>>
    ELSE escape_char(Head(body)) \o escape_loop(Tail(body))

\* A mutant of escaped_body: the body is escaped first and sanitized after.
escaped_body_escape_first(caps, untrusted_body) ==
    IF "body-markup" \in caps THEN sanitize_str(escape_loop(untrusted_body))
    ELSE sanitize_str(untrusted_body)

\* lib.rs 597-618: the body passed to Notify.
escaped_body(caps, untrusted_body) ==
    IF "body-markup" \in caps THEN escape_loop(sanitize_str(untrusted_body))
    ELSE sanitize_str(untrusted_body)

\* The bodies of at most MaxLen code points, under either set of
\* capabilities.
BodyInputs ==
    [capabilities : {{}, {"body-markup"}},
     body : UNION {[1..n -> BodyCodePoints] : n \in 0..MaxLen}]

InitBody ==
    /\ InitMessages
    /\ capabilities = {}
    /\ WirePast
    /\ input \in BodyInputs
    /\ output = Unapplied

ApplyBody ==
    /\ ~output.applied
    /\ output' = Applied(escaped_body(input.capabilities, input.body))
    /\ UNCHANGED <<mapsVars, hostVars, guestVars, pipe_g2h, pipe_h2g, apiVars,
                   wireVars, input, serviceVars>>

NextBody == ApplyBody

SpecBody == InitBody /\ [][NextBody]_vars

\* The five entities.
Entities ==
    {<<"&", "l", "t", ";">>, <<"&", "g", "t", ";">>, <<"&", "a", "m", "p", ";">>,
     <<"&", "a", "p", "o", "s", ";">>, <<"&", "q", "u", "o", "t", ";">>}

\* The string with each code point of markup replaced by its entity.
HtmlEscaped(str) ==
    LET Entity(c) ==
            IF c = "<" THEN "lt" ELSE IF c = ">" THEN "gt"
            ELSE IF c = "&" THEN "amp" ELSE IF c = "APOS" THEN "apos"
            ELSE IF c = "QUOT" THEN "quot" ELSE "none"
        Spelled(name) ==
            IF name = "lt" THEN <<"l", "t">> ELSE IF name = "gt" THEN <<"g", "t">>
            ELSE IF name = "amp" THEN <<"a", "m", "p">>
            ELSE IF name = "apos" THEN <<"a", "p", "o", "s">>
            ELSE <<"q", "u", "o", "t">>
        Piece(c) == IF Entity(c) = "none" THEN <<c>>
                    ELSE <<"&">> \o Spelled(Entity(c)) \o <<";">>
        RECURSIVE Joined(_)
        Joined(k) == IF k = 0 THEN <<>> ELSE Joined(k - 1) \o Piece(str[k])
    IN Joined(Len(str))

\* C25: when the real service advertises body-markup, the body passed to it
\* is the sanitized body with its markup escaped afterwards: it holds none of
\* < > ' " and each & in it starts one of the five entities; when it does
\* not, the body passed is the sanitized body, unescaped.
C25_BodyEscaped ==
    output.applied =>
        IF "body-markup" \in input.capabilities
        THEN /\ output.value = HtmlEscaped(sanitize_str(input.body))
             /\ \A i \in 1..Len(output.value) :
                   /\ output.value[i] \notin {"<", ">", "APOS", "QUOT"}
                   /\ output.value[i] = "&" =>
                         \E e \in Entities :
                             /\ i + Len(e) - 1 <= Len(output.value)
                             /\ SubSeq(output.value, i, i + Len(e) - 1) = e
        ELSE output.value = sanitize_str(input.body)

\* A body with an ampersand, a less-than sign and a carriage return, passed
\* to a service that advertises body-markup.
C25_MarkupEscaped ==
    /\ output.applied
    /\ "body-markup" \in input.capabilities
    /\ \E i, j, k \in 1..Len(input.body) :
          input.body[i] = "&" /\ input.body[j] = "<" /\ input.body[k] = "CR"
    /\ Len(output.value) > Len(input.body)

(***************************************************************************)
(* The category of a request (lib.rs 566-587).                             *)
(***************************************************************************)
MaxShort == 3
MaxCategory == 66

\* The bytes a category is made of here: lower-case letters, the dot, an
\* upper-case letter and a digit.
CategoryBytes == {"a", "z", ".", "A", "0"}

\* The categories tried: every short one, and long ones around the length
\* limit that are letters but for one byte.
Categories ==
    UNION {[1..n -> CategoryBytes] : n \in 0..MaxShort}
    \cup {[i \in 1..n |-> IF i = p THEN b ELSE "a"] :
              n \in 62..MaxCategory, p \in {1, 2, 63, 64}, b \in CategoryBytes}

InitCategory ==
    /\ InitMessages
    /\ capabilities = {}
    /\ WirePast
    /\ input \in Categories
    /\ output = Unapplied

\* send_notification for a request that has this category and nothing else
\* to object to.
ApplyCategory ==
    /\ ~output.applied
    /\ output' = Applied(send_notification_start(
                     Maps, capabilities,
                     Notification(0, -1, <<>>, Some(input), None)))
    /\ UNCHANGED <<mapsVars, hostVars, guestVars, pipe_g2h, pipe_h2g, apiVars,
                   wireVars, input, serviceVars>>

NextCategory == ApplyCategory

SpecCategory == InitCategory /\ [][NextCategory]_vars

\* [a-z][a-z.]{0,62}[a-z]
CategoryPattern(str) ==
    /\ Len(str) >= 2
    /\ Len(str) - 2 <= 62
    /\ str[1] \in LowerCase
    /\ str[Len(str)] \in LowerCase
    /\ \A i \in 2..(Len(str) - 1) : str[i] \in LowerCase \cup {"."}

\* C27 as stated: the request goes through exactly when its category
\* matches [a-z][a-z.]{0,62}[a-z], and fails otherwise.
C27_CategoryPattern ==
    output.applied => (output.value.call <=> CategoryPattern(input))

\* C27: the request goes through exactly when its category is a single
\* lower-case letter or matches [a-z][a-z.]{0,62}[a-z], that is, has 1 to
\* 64 bytes, all lower-case letters or dots, the first and the last a
\* letter; every other category makes it fail.
C27_CategoryAccepted ==
    output.applied =>
        /\ output.value.call <=>
               \/ Len(input) = 1 /\ input[1] \in LowerCase
               \/ CategoryPattern(input)
        /\ ~output.value.call => ~output.value.err.ok

\* A category of one letter, accepted.
C27_SingleLetter ==
    /\ output.applied
    /\ Len(input) = 1
    /\ output.value.call

(***************************************************************************)
(* The image of a request (lib.rs 119-121 and 156-227).  An image is       *)
(* <<width, height, rowstride, has_alpha, bits_per_sample, channels, len>>, *)
(* len being the length of its data and has_alpha 0 or 1.                  *)
(***************************************************************************)
MAX_SIZE == 16
MAX_WIDTH == 2
MAX_HEIGHT == 2
I32Max == 2147483647
I32Min == -2147483647 - 1

\* `as i32` of a usize below 2^32.
as_i32(n) == IF n <= I32Max THEN n ELSE (n - I32Max - 1) + I32Min

\* A mutant of StrideTooSmall: any stride will do.
StrideTooSmall_never(rowstride, channels, width) == FALSE

\* lib.rs 209: the rows do not fit in the stride.  Both operands of the
\* division are positive here.
StrideTooSmall(rowstride, channels, width) == rowstride \div channels < width

ImageErr(e) == [ok |-> FALSE, err |-> e, value |-> <<>>]

\* lib.rs 156-227
serialize_image(image) ==
    LET untrusted_width == image[1]
        untrusted_height == image[2]
        untrusted_rowstride == image[3]
        has_alpha == image[4]
        untrusted_bits_per_sample == image[5]
        untrusted_channels == image[6]
        data_len == image[7]
        channels == 3 + has_alpha
    IN IF untrusted_bits_per_sample # 8
       THEN ImageErr("Wrong number of bits per sample")
       ELSE IF data_len > MAX_SIZE
       THEN ImageErr("Too much data")
       ELSE IF untrusted_channels # channels
       THEN ImageErr("Wrong number of channels")
       ELSE IF \/ untrusted_width < 1
               \/ untrusted_height < 1
               \/ untrusted_rowstride < channels
       THEN ImageErr("Too small width, height, or stride")
       ELSE IF untrusted_width > MAX_WIDTH \/ untrusted_height > MAX_HEIGHT
       THEN ImageErr("Width or height too large")
       ELSE IF as_i32(data_len) \div untrusted_height < untrusted_rowstride
       THEN ImageErr("Image too large")
       ELSE IF StrideTooSmall(untrusted_rowstride, channels, untrusted_width)
       THEN ImageErr("Row stride too small")
       ELSE [ok |-> TRUE, err |-> "",
             value |-> <<untrusted_width, untrusted_height, untrusted_rowstride,
                         has_alpha, untrusted_bits_per_sample, channels,
                         data_len>>]

\* The values a side and a stride take: the extreme values of a 32-bit
\* field and the values around the limits it is compared with.
Sides == {I32Min, I32Max} \cup 0..(MAX_WIDTH + 1)
Strides == {I32Min, I32Max} \cup 0..(MAX_SIZE + 1)

\* The images tried.
InitImage ==
    /\ InitMessages
    /\ capabilities = {}
    /\ WirePast
    /\ input \in Sides \X Sides \X Strides \X {0, 1} \X {8, 16} \X {3, 4, 5}
                    \X (0..(MAX_SIZE + 1))
    /\ output = Unapplied

ApplyImage ==
    /\ ~output.applied
    /\ output' = Applied(serialize_image(input))
    /\ UNCHANGED <<mapsVars, hostVars, guestVars, pipe_g2h, pipe_h2g, apiVars,
                   wireVars, input, serviceVars>>

NextImage == ApplyImage

SpecImage == InitImage /\ [][NextImage]_vars

\* C28: of every image serialize_image accepts, the rows fit in the data
\* (rowstride * height <= length), the pixels fit in a row (channels * width
\* <= rowstride), channels is 3 or 4 and 3 plus has_alpha, bits_per_sample
\* is 8, width and height lie between 1 and their maximum, and every value
\* computed on the way is a 32-bit signed integer.
C28_ImageAccepted ==
    output.applied /\ output.value.ok =>
        LET width == input[1]
            height == input[2]
            rowstride == input[3]
            channels == input[6]
            len == input[7]
            InI32(v) == I32Min <= v /\ v <= I32Max
        IN /\ rowstride * height <= len
           /\ channels * width <= rowstride
           /\ channels \in {3, 4}
           /\ channels = 3 + input[4]
           /\ input[5] = 8
           /\ 1 <= width /\ width <= MAX_WIDTH
           /\ 1 <= height /\ height <= MAX_HEIGHT
           /\ as_i32(len) = len
           /\ InI32(3 + input[4])
           /\ InI32(as_i32(len) \div height)
           /\ InI32(rowstride \div channels)
           /\ output.value.value = input

\* The largest image with an alpha channel, accepted.
C28_Largest ==
    /\ output.applied
    /\ output.value.ok
    /\ input[1] = MAX_WIDTH
    /\ input[2] = MAX_HEIGHT
    /\ input[4] = 1
    /\ input[3] * input[2] <= input[7]

(***************************************************************************)
(* The way of a request: the guest agent and the host's request tasks,     *)
(* with a real service that advertises no capability.  The host's event    *)
(* tasks write frames without a sequence and are left out, and with them   *)
(* the agent's handling of such frames.                                    *)
(***************************************************************************)
NextRequests ==
    \/ \E n \in NotifyInputs : GuestNotify(n)
    \/ \E s \in DOMAIN calls : GuestNotifyWrite(s)
    \/ \E s \in DOMAIN calls : GuestNotifyPark(s)
    \/ GuestReplyWaiter
    \/ GuestReplyUnknownError
    \/ HostRead
    \/ \E t \in Tasks : HostSendStart(t)
    \/ \E t \in Tasks, answer \in ServiceAnswers : HostSendFinish(t, answer)
    \/ \E t \in Tasks : HostTransmit(t)

SpecRequests == InitPlain /\ [][NextRequests]_vars

\* C29: a Notify call is given a sequence greater than that of every call
\* before it, and the counter moves on; the frame written carries that
\* sequence; when a waiter is parked no waiter is parked under its sequence;
\* the host's task takes the sequence of the frame it read, and the reply it
\* writes carries the sequence of its task, which is that of a call whose
\* request was written and that has no result yet.
C29_Sequences ==
    [][/\ \A n \in NotifyInputs :
             GuestNotify(n) =>
                 /\ \A s \in DOMAIN calls : s < next_seq
                 /\ DOMAIN calls' = DOMAIN calls \cup {next_seq}
                 /\ next_seq' > next_seq
       /\ \A s \in DOMAIN calls :
             GuestNotifyWrite(s) => pipe_g2h'[Len(pipe_g2h')].id = s
       /\ \A s \in DOMAIN calls :
             GuestNotifyPark(s) => s \notin map /\ map' = map \cup {s}
       /\ HostRead =>
             \E t \in BagToSet(tasks') :
                 /\ CopiesIn(t, tasks') > CopiesIn(t, tasks)
                 /\ t.sequence = Head(pipe_g2h).id
       /\ \A t \in Tasks :
             HostTransmit(t) =>
                 /\ pipe_h2g'[Len(pipe_h2g')].sequence = t.sequence
                 /\ t.sequence \in DOMAIN calls
                 /\ calls[t.sequence].stage \in {"written", "parked"}]_vars

\* C30: at no suspension point is the parking table's lock held.  Every
\* state lies between two polls; a call whose frame is being written and
\* flushed is suspended in the pipe write.  (The host's mapping is borrowed
\* inside single steps only: no variable records a borrow.)
C30_NothingHeld ==
    \A s \in DOMAIN calls : calls[s].stage = "written" => guest_lock # s

\* C31: the waiter of a sequence is parked before anything of that
\* sequence's frame is written, and stays parked until the Id or error reply
\* for the sequence is taken: a call whose frame is written and that has no
\* result yet has its waiter parked.
C31_ParkedBeforeWritten ==
    \A s \in DOMAIN calls :
        calls[s].stage \in {"written", "parked"} => s \in map

\* C36: when the reply reader dispatches an Id or DBusError frame for a
\* sequence whose request frame the guest has written and that has not been
\* answered yet, the slot of that sequence is in the parking table and the
\* missing-slot path is not taken.
C36_SlotParked ==
    [][GuestReplyWaiter =>
          LET s == Head(pipe_h2g).sequence
          IN  (s \in DOMAIN calls /\ calls[s].stage \in {"written", "parked"})
                  => (s \in map /\ guest_state' = "running")]_vars

\* One call has been completed by its reply, and the reply of the next is
\* in the pipe while that call, its frame written, has yet to park its
\* waiter.
C36_ReplyBeforePark ==
    /\ 0 \in DOMAIN calls /\ calls[0].stage = "done" /\ calls[0].result.ok
    /\ 1 \in DOMAIN calls /\ calls[1].stage = "written"
    /\ pipe_h2g # <<>>
    /\ Head(pipe_h2g).type = "Id"
    /\ Head(pipe_h2g).sequence = 1

\* Two waiters are parked and the host's reply to the later call is on the
\* pipe first.
C29_LaterFirst ==
    /\ {0, 1} \subseteq map
    /\ pipe_h2g # <<>>
    /\ Head(pipe_h2g).type = "Id"
    /\ Head(pipe_h2g).sequence = 1

(***************************************************************************)
(* The host with the real service beside it.  The service answers Notify   *)
(* with a host ID, closes notifications, reports invoked actions and may   *)
(* be restarted; its answer and its signals reach the host's tasks later,  *)
(* each task when it is polled.                                            *)
(***************************************************************************)
MaxEvents == 2

\* The requests of this part: nothing to object to, any replaces_id.
PlainInputs == {Notification(r, -1, <<>>, None, None) : r \in 0..MaxU32}

\* A signal in a stream: its number in the order of emission, and its id.
Signal(serial, id) == [serial |-> serial, id |-> id]

\* The real service answers the Notify call of task t with host ID h
\* (lib.rs 623-635, the awaited call).  The notification is open from now on.
ServiceAnswer(t, h) ==
    /\ t \in Tasks
    /\ t.stage = "calling"
    /\ tasks' = Become(t, Task(t.sequence, "answered", Moved, t.guest_id, h, NoFrame))
    /\ service' = [service EXCEPT !.open = @ \cup {h},
                                  !.misused = @ \/ h \in service.open]
    /\ UNCHANGED <<host_state, capabilities, replied, spawned, signals,
                   pipe_g2h, pipe_h2g, events>>
    /\ UNCHANGED <<mapsVars, guestVars, apiVars, wireVars, fnVars>>

\* The real service refuses the call of task t; the `?` of lib.rs 635 hands
\* the error to the reply assembly.
ServiceFail(t, answer) ==
    /\ t \in Tasks
    /\ t.stage = "calling"
    /\ ~answer.ok
    /\ tasks' = Become(t, Task(t.sequence, "replying", Moved, 0, 0,
                               ReplyOf(answer, t.sequence)))
    /\ UNCHANGED <<host_state, capabilities, replied, spawned, signals,
                   pipe_g2h, pipe_h2g>>
    /\ UNCHANGED <<mapsVars, guestVars, apiVars, wireVars, fnVars, serviceVars>>

\* The task of an answered call is polled: lib.rs 636-639, then the reply
\* assembly.  A panic leaves the task where it was.
HostResume(t) ==
    /\ host_state \in Polled
    /\ t \in Tasks
    /\ t.stage = "answered"
    /\ LET f == send_notification_finish(Maps, Ok(t.host_id_num))
       IN /\ SetMaps(f.maps)
          /\ host_state' = IF f.outcome = "ok" THEN host_state
                         ELSE AfterOutcome(f.outcome)
          /\ tasks' = IF f.outcome = "ok"
                      THEN Become(t, Task(t.sequence, "replying", Moved, 0, 0,
                                          ReplyOf(f.out, t.sequence)))
                      ELSE tasks
    /\ UNCHANGED <<capabilities, replied, spawned, signals, pipe_g2h, pipe_h2g>>
    /\ UNCHANGED <<guestVars, apiVars, wireVars, fnVars, serviceVars>>

\* The real service closes the notification h and emits NotificationClosed.
ServiceClose(h) ==
    /\ service.emitted < MaxEvents
    /\ h \in service.open
    /\ service' = [service EXCEPT !.open = @ \ {h}, !.emitted = @ + 1]
    /\ events' = [events EXCEPT
                     !.closed = Append(@, Signal(service.emitted + 1, h))]
    /\ UNCHANGED <<mapsVars, hostVars, guestVars, apiVars, pipe_g2h, pipe_h2g,
                   wireVars, fnVars>>

\* The real service emits ActionInvoked for the open notification h.
ServiceInvoke(h) ==
    /\ service.emitted < MaxEvents
    /\ h \in service.open
    /\ service' = [service EXCEPT !.emitted = @ + 1]
    /\ events' = [events EXCEPT
                     !.invoked = Append(@, Signal(service.emitted + 1, h))]
    /\ UNCHANGED <<mapsVars, hostVars, guestVars, apiVars, pipe_g2h, pipe_h2g,
                   wireVars, fnVars>>

\* The real service is restarted: nothing is open at the new one, and the
\* bus emits NameOwnerChanged.
ServiceRestart ==
    /\ service.emitted < MaxEvents
    /\ service' = [service EXCEPT !.open = {}, !.emitted = @ + 1]
    /\ events' = [events EXCEPT
                     !.owner = Append(@, Signal(service.emitted + 1, 0))]
    /\ UNCHANGED <<mapsVars, hostVars, guestVars, apiVars, pipe_g2h, pipe_h2g,
                   wireVars, fnVars>>

\* A mutant of stream_next: the signal emitted last is taken first.
stream_next_last(stream) ==
    [item |-> stream[Len(stream)], rest |-> SubSeq(stream, 1, Len(stream) - 1)]

\* SignalStream::next (server lines 58, 71, 95): the signal emitted first.
stream_next(stream) == [item |-> Head(stream), rest |-> Tail(stream)]

\* closed_stream_handle, lines 71-88: take a signal; an ID that is not
\* mapped is skipped, else the frame is ready for transmit (line 89).
ClosedTake ==
    /\ host_state = "running"
    /\ events.held.closed = <<>>
    /\ events.closed # <<>>
    /\ LET got == stream_next(events.closed)
           r == emitter_remove_host_id(Maps, got.item.id)
       IN /\ SetMaps(r.maps)
          /\ host_state' = AfterOutcome(r.outcome)
          /\ events' = [events EXCEPT
                !.closed = got.rest,
                !.held.closed =
                    IF r.outcome = "ok" /\ r.ret.some
                    THEN <<[serial |-> got.item.serial,
                            frame |-> ReplyDismissed(r.ret.v, 3)]>>
                    ELSE <<>>]
    /\ UNCHANGED <<capabilities, tasks, replied, spawned, signals, pipe_g2h,
                   pipe_h2g, service>>
    /\ UNCHANGED <<guestVars, apiVars, wireVars, fnVars>>

\* invoked_stream_handle, lines 95-112.
InvokedTake ==
    /\ host_state = "running"
    /\ events.held.invoked = <<>>
    /\ events.invoked # <<>>
    /\ LET got == stream_next(events.invoked)
           g == translate_host_id(Maps, got.item.id)
       IN events' = [events EXCEPT
             !.invoked = got.rest,
             !.held.invoked =
                 IF g.some
                 THEN <<[serial |-> got.item.serial,
                         frame |-> ReplyActionInvoked(g.v, <<"k">>)]>>
                 ELSE <<>>]
    /\ UNCHANGED <<mapsVars, hostVars, guestVars, apiVars, pipe_g2h, pipe_h2g,
                   wireVars, fnVars, service>>

\* Lines 89 and 113 with MessageWriter::transmit (lib.rs 372-384): the event
\* task writes its frame when the pipe has room for it, and goes back to
\* its stream.
EventTransmit(e) ==
    /\ host_state = "running"
    /\ events.held[e] # <<>>
    /\ pipe_h2g = <<>>
    /\ pipe_h2g' = Append(pipe_h2g, events.held[e][1].frame)
    /\ events' = [events EXCEPT !.held[e] = <<>>,
                                !.written[e] = events.held[e][1].serial]
    /\ UNCHANGED <<mapsVars, hostVars, guestVars, apiVars, pipe_g2h,
                   wireVars, fnVars, service>>

\* owner_changed_handle, lines 57-68: emitter.clear() and nothing else.
OwnerChangedTake ==
    /\ host_state = "running"
    /\ events.owner # <<>>
    /\ SetMaps(clear(Maps))
    /\ events' = [events EXCEPT !.owner = stream_next(@).rest]
    /\ UNCHANGED <<hostVars, guestVars, apiVars, pipe_g2h, pipe_h2g,
                   wireVars, fnVars, service>>

NextService ==
    \/ \E n \in PlainInputs : PeerRequest(0, n)
    \/ PeerTake
    \/ HostRead
    \/ \E t \in Tasks : HostSendStart(t)
    \/ \E t \in Tasks, h \in HostIds : ServiceAnswer(t, h)
    \/ \E t \in Tasks, answer \in ServiceAnswers : ServiceFail(t, answer)
    \/ \E t \in Tasks : HostResume(t)
    \/ \E t \in Tasks : HostTransmit(t)
    \/ \E h \in HostIds : ServiceClose(h)
    \/ \E h \in HostIds : ServiceInvoke(h)
    \/ ServiceRestart
    \/ ClosedTake
    \/ InvokedTake
    \/ \E e \in Events : EventTransmit(e)
    \/ OwnerChangedTake

SpecService == InitPlain /\ [][NextService]_vars

\* The part of it that the two forwarded signals take: new notifications,
\* the service closing them and reporting actions, the two event tasks.
NextEvents ==
    \/ PeerRequest(0, Notification(0, -1, <<>>, None, None))
    \/ PeerTake
    \/ HostRead
    \/ \E t \in Tasks : HostSendStart(t)
    \/ \E t \in Tasks, h \in HostIds : ServiceAnswer(t, h)
    \/ \E t \in Tasks : HostResume(t)
    \/ \E t \in Tasks : HostTransmit(t)
    \/ \E h \in HostIds : ServiceClose(h)
    \/ \E h \in HostIds : ServiceInvoke(h)
    \/ ClosedTake
    \/ InvokedTake
    \/ \E e \in Events : EventTransmit(e)

SpecEvents == InitPlain /\ [][NextEvents]_vars

\* C32: in each of the two streams the frames are written in the order in
\* which the real service emitted their signals: the signal whose frame an
\* event task writes was emitted after the one whose frame it wrote last,
\* and before every signal still waiting in its stream.
C32_EmissionOrder ==
    [][\A e \in Events :
          EventTransmit(e) =>
              /\ events.held[e][1].serial > events.written[e]
              /\ \A i \in 1..Len(events[e]) :
                    events[e][i].serial > events.held[e][1].serial]_vars

\* Two notifications were mapped, the service closed both, and the Dismissed
\* frame of the one closed later has been written after the other's.
C32_BothDismissed ==
    /\ last_id = 3
    /\ host_to_guest_map = EmptyMap
    /\ events.owner = <<>>
    /\ service.emitted = 2
    /\ events.written.closed = 2
    /\ pipe_h2g # <<>>
    /\ Head(pipe_h2g).type = "Dismissed"

\* C34: the task of an answered call fails an assertion of next_id only
\* when the real service has answered some call with a host ID of a
\* notification that was open at it at that moment.
C34_CollisionOnlyOnReuse ==
    [][\A t \in Tasks :
          HostResume(t) /\ host_state' = "aborted" => service.misused]_vars

(***************************************************************************)
(* The end of the host's input, and what the scheduler owes the tasks:     *)
(* the current_thread runtime of main polls every task that can run, the   *)
(* real service answers every call, the guest reads what the host writes.  *)
(***************************************************************************)
\* Lines 118-123 and 129-134 answer the end of the input with `break`, when
\* every frame the guest wrote has been read; lines 164-167 then abort the
\* three event tasks, which take no step after it.
HostEof ==
    /\ host_state = "running"
    /\ pipe_g2h = <<>>
    /\ host_state' = "draining"
    /\ UNCHANGED <<capabilities, tasks, replied, spawned, signals, pipe_g2h,
                   pipe_h2g>>
    /\ UNCHANGED <<mapsVars, guestVars, apiVars, wireVars, fnVars, serviceVars>>

\* main, lines 170-177: the LocalSet is done once client_server has
\* returned and no task of a request is left; main returns Ok(()).
HostExit ==
    /\ host_state = "draining"
    /\ tasks = EmptyBag
    /\ host_state' = "exited"
    /\ UNCHANGED <<capabilities, tasks, replied, spawned, signals, pipe_g2h,
                   pipe_h2g>>
    /\ UNCHANGED <<mapsVars, guestVars, apiVars, wireVars, fnVars, serviceVars>>

\* A real service that keeps to its contract: the ID of its answer is not
\* the ID of a notification that is open at it.
ServiceAnswerFresh(t, h) ==
    /\ h \notin service.open
    /\ ServiceAnswer(t, h)

\* The guest numbers its frames and writes until it closes its end.
GuestFrame ==
    /\ host_state = "running"
    /\ PeerRequest(spawned, Notification(0, -1, <<>>, None, None))

NextShutdown ==
    \/ GuestFrame
    \/ PeerTake
    \/ HostRead
    \/ \E t \in Tasks : HostSendStart(t)
    \/ \E t \in Tasks, h \in HostIds : ServiceAnswerFresh(t, h)
    \/ \E t \in Tasks : HostResume(t)
    \/ \E t \in Tasks : HostTransmit(t)
    \/ \E h \in HostIds : ServiceClose(h)
    \/ ClosedTake
    \/ \E e \in Events : EventTransmit(e)
    \/ HostEof
    \/ HostExit

FairShutdown ==
    /\ WF_vars(PeerTake)
    /\ WF_vars(HostRead)
    /\ WF_vars(\E t \in Tasks : HostSendStart(t))
    /\ WF_vars(\E t \in Tasks, h \in HostIds : ServiceAnswerFresh(t, h))
    /\ WF_vars(\E t \in Tasks : HostResume(t))
    /\ WF_vars(\E t \in Tasks : HostTransmit(t))
    /\ WF_vars(ClosedTake)
    /\ WF_vars(\E e \in Events : EventTransmit(e))
    /\ WF_vars(HostExit)

SpecShutdown == InitPlain /\ [][NextShutdown]_vars /\ FairShutdown

\* C33: once the host has seen the end of its input, with its event tasks
\* aborted, it comes to exit with code 0, the real service answering every
\* call that is outstanding.
C33_EofExits ==
    /\ [][host_state = "draining" => host_state' \in {"draining", "exited"}]_vars
    /\ (host_state = "draining") ~> (host_state = "exited")

\* C35: every request frame the host has read, and so has a task for, is
\* in the end answered by a reply frame that carries its sequence, and by
\* one only: the task that the real service has answered goes on to its
\* reply, no sequence is replied to twice, and every task comes to write.
C35_EveryRequestAnswered ==
    /\ [][\A t \in Tasks :
             /\ HostResume(t) => host_state' = host_state
             /\ HostTransmit(t) => t.sequence \notin replied]_vars
    /\ \A s \in 0..(MaxCalls - 1) :
          (\E t \in Tasks : t.sequence = s) ~> (s \in replied)

(***************************************************************************)
(* What names a notification to the real service: the path of a Notify     *)
(* call of a guest application to the arguments of the host's call, looked *)
(* at on its own, for two calls side by side.                              *)
(***************************************************************************)
\* Names of qubes, and what a guest application may pass as app_name and
\* app_icon.
QubeNames == {"work", "personal"}
GuestAppNames == {"", "Qube: dom0"}
GuestAppIcons == {"", "dialog-password"}

\* A mutant of NotificationEmitter_new: the two strings taken in the other
\* order.
NotificationEmitter_new_swapped(prefix, application_name) ==
    [prefix |-> application_name, application_name |-> prefix]

\* NotificationEmitter::new (lib.rs 310-362): the two strings it keeps.
NotificationEmitter_new(prefix, application_name) ==
    [prefix |-> prefix, application_name |-> application_name]

\* server.rs 18-24: the emitter of the host of qube qube_name.  (The icon
\* the caller computes at lines 11-17 has no place in the emitter of lib.rs.)
server_emitter(qube_name) ==
    NotificationEmitter_new(qube_name \o ": ", "Qube: " \o qube_name)

\* Server::notify (client.rs 99-207): the request put on the pipe for a
\* Notify call; _app_name and _app_icon are not used.
client_notify(app_name, app_icon, n) == n

\* send_notification (lib.rs 515-523 and 623-634): the app_name, replaces_id
\* and app_icon of the call to the real service, when one is made.
notify_arguments(emitter, m, caps, n) ==
    LET start == send_notification_start(m, caps, n)
    IN IF start.call
       THEN [call |-> TRUE, app_name |-> emitter.application_name,
             replaces_id |-> start.host_id_num, app_icon |-> ""]
       ELSE [call |-> FALSE, app_name |-> "", replaces_id |-> 0,
             app_icon |-> ""]

\* A Notify call of a guest application.
GuestCalls == [app_name : GuestAppNames, app_icon : GuestAppIcons,
               n : NotifyInputs]

\* From the guest application's call to the host's.
ServiceCall(qube_name, caps, c) ==
    notify_arguments(server_emitter(qube_name), MapsDefault, caps,
                     client_notify(c.app_name, c.app_icon, c.n))

InitNames ==
    /\ InitMessages
    /\ WirePast
    /\ input \in [qube_name : QubeNames, first : GuestCalls, second : GuestCalls]
    /\ output = Unapplied

ApplyNames ==
    /\ ~output.applied
    /\ output' = Applied(<<ServiceCall(input.qube_name, capabilities, input.first),
                           ServiceCall(input.qube_name, capabilities, input.second)>>)
    /\ UNCHANGED <<mapsVars, hostVars, guestVars, pipe_g2h, pipe_h2g, apiVars,
                   wireVars, input, serviceVars>>

NextNames == ApplyNames

SpecNames == InitNames /\ [][NextNames]_vars

Renamings ==
    {f \in [HostIds -> 1..(MaxHostId + 1)] :
        \A a, b \in HostIds : f[a] = f[b] => a = b}

\* An ID of the real service, renamed; 0 is no ID.
Renamed(f, id) == IF id = 0 THEN 0 ELSE f[id]
RenamedAnswer(f, answer) ==
    IF answer.ok THEN Ok(Renamed(f, answer.v)) ELSE answer

\* A host: its mapping, whether it runs, the frame it wrote last, and the
\* sequences it has answered.
Run(maps, state, frame, answered) ==
    [maps |-> maps, state |-> state, frame |-> frame, answered |-> answered]

First == Run(Maps, host_state, pipe_h2g, replied)
Second == output

\* The host has nothing to write in this step, or does not run any more.
Silent(run) == [run EXCEPT !.frame = <<>>]

\* server.rs 117-162 with lib.rs 491-635: a request is read and its task
\* runs up to the call of the real service, or to the error it replies.
RunStart(run, sequence, n, caps) ==
    LET start == send_notification_start(run.maps, caps, n)
    IN IF run.state # "running" \/ start.call THEN Silent(run)
       ELSE Run(run.maps, run.state, <<ReplyOf(start.err, sequence)>>,
                run.answered \cup {sequence})

\* lib.rs 623-639 and server.rs 145-161: the real service answers and the
\* task replies.
RunFinish(run, sequence, answer) ==
    LET f == send_notification_finish(run.maps, answer)
    IN IF run.state # "running" \/ sequence \in run.answered THEN Silent(run)
       ELSE IF f.outcome # "ok"
       THEN Run(run.maps, AfterOutcome(f.outcome), <<>>, run.answered)
       ELSE Run(f.maps, run.state, <<ReplyOf(f.out, sequence)>>,
                run.answered \cup {sequence})

\* server.rs 70-91
RunClosed(run, id, reason) ==
    LET r == emitter_remove_host_id(run.maps, id)
    IN IF run.state # "running" THEN Silent(run)
       ELSE IF r.outcome # "ok"
       THEN Run(run.maps, AfterOutcome(r.outcome), <<>>, run.answered)
       ELSE Run(r.maps, run.state,
                IF r.ret.some THEN <<ReplyDismissed(r.ret.v, reason)>> ELSE <<>>,
                run.answered)

\* server.rs 94-115
RunInvoked(run, id, action_key) ==
    LET g == translate_host_id(run.maps, id)
    IN IF run.state # "running" \/ ~g.some THEN Silent(run)
       ELSE [run EXCEPT !.frame = <<ReplyActionInvoked(g.v, action_key)>>]

\* server.rs 57-68
RunOwnerChanged(run) ==
    IF run.state # "running" THEN Silent(run)
    ELSE Run(clear(run.maps), run.state, <<>>, run.answered)

\* The first host becomes `run`.
SetFirst(run) ==
    /\ SetMaps(run.maps)
    /\ host_state' = run.state
    /\ pipe_h2g' = run.frame
    /\ replied' = run.answered

\* A request that makes the first host call the real service is on its way
\* there in both.
Calling == {q \in 0..(spawned - 1) : q \notin replied}

TwoStart(n) ==
    /\ spawned < MaxCalls
    /\ spawned' = spawned + 1
    /\ SetFirst(RunStart(First, spawned, n, capabilities))
    /\ output' = RunStart(Second, spawned, n, capabilities)
    /\ UNCHANGED <<capabilities, tasks, signals, guestVars, pipe_g2h, apiVars,
                   wireVars, input, serviceVars>>

TwoFinish(sequence, answer) ==
    /\ sequence \in Calling
    /\ host_state = "running"
    /\ SetFirst(RunFinish(First, sequence, answer))
    /\ output' = RunFinish(Second, sequence, RenamedAnswer(input, answer))
    /\ UNCHANGED <<capabilities, tasks, spawned, signals, guestVars, pipe_g2h,
                   apiVars, wireVars, input, serviceVars>>

TwoClosed(id, reason) ==
    /\ signals < MaxSignals
    /\ signals' = signals + 1
    /\ SetFirst(RunClosed(First, id, reason))
    /\ output' = RunClosed(Second, Renamed(input, id), reason)
    /\ UNCHANGED <<capabilities, tasks, spawned, guestVars, pipe_g2h, apiVars,
                   wireVars, input, serviceVars>>

TwoInvoked(id, action_key) ==
    /\ signals < MaxSignals
    /\ signals' = signals + 1
    /\ SetFirst(RunInvoked(First, id, action_key))
    /\ output' = RunInvoked(Second, Renamed(input, id), action_key)
    /\ UNCHANGED <<capabilities, tasks, spawned, guestVars, pipe_g2h, apiVars,
                   wireVars, input, serviceVars>>

TwoOwnerChanged ==
    /\ signals < MaxSignals
    /\ signals' = signals + 1
    /\ SetFirst(RunOwnerChanged(First))
    /\ output' = RunOwnerChanged(Second)
    /\ UNCHANGED <<capabilities, tasks, spawned, guestVars, pipe_g2h, apiVars,
                   wireVars, input, serviceVars>>

InitTwo ==
    /\ InitMessages
    /\ capabilities = {}
    /\ WirePast
    /\ input \in Renamings
    /\ output = Run(MapsDefault, "running", <<>>, {})

NextTwo ==
    \/ \E n \in NotifyInputs : TwoStart(n)
    \/ \E sequence \in Calling, answer \in ServiceAnswers :
          TwoFinish(sequence, answer)
    \/ \E id \in 0..MaxHostId, reason \in Reasons : TwoClosed(id, reason)
    \/ \E id \in 0..MaxHostId, k \in ActionKeys : TwoInvoked(id, k)
    \/ TwoOwnerChanged

SpecTwo == InitTwo /\ [][NextTwo]_vars

\* C18: of two hosts that get the same requests and the same events, with
\* the host IDs of the one's real service an injective renaming of the
\* other's, each writes at every step the frame the other writes (the same
\* kind, guest ID, sequence and payload), or nothing when the other writes
\* nothing.
C18_SameFrames == pipe_h2g = Second.frame

\* Both hosts have just written Dismissed for a notification that their
\* real services know under different IDs, none of the IDs being mapped to
\* itself.
C18_Dismissed ==
    /\ pipe_h2g # <<>>
    /\ pipe_h2g[1].type = "Dismissed"
    /\ pipe_h2g[1].id # 0
    /\ Second.frame = pipe_h2g
    /\ \A h \in HostIds : input[h] # h

====
